---------------------------- MODULE Spec2Model ----------------------------
(***************************************************************************)
(* MaiZone state synchronisation core.                                     *)
(*                                                                         *)
(* state_core.js (schema, normalisation, invariants, diff) is modelled as  *)
(* operators; background_state.js (hydration, the update chain, the        *)
(* storage reconcile listener) and the callers of updateState are modelled *)
(* as actions over the service worker's module-level variables,           *)
(* chrome.storage.local and the queue of storage.onChanged events.         *)
(*                                                                         *)
(* JavaScript values are tagged records [t, v]; strings are sequences of   *)
(* one-character strings so that trim/slice/lower-casing are computed.     *)
(* Numbers are integers plus the two non-finite values NaN and Infinity.   *)
(***************************************************************************)
EXTENDS Integers, Sequences, FiniteSets, TLC

(***************************************************************************)
(* JavaScript values                                                       *)
(***************************************************************************)
Undef == [t |-> "undefined", v |-> 0]
Null == [t |-> "null", v |-> 0]
NaN == [t |-> "nan", v |-> 0]
Infinity == [t |-> "infinity", v |-> 0]
Bool(b) == [t |-> "boolean", v |-> b]
Num(n) == [t |-> "number", v |-> n]
Str(s) == [t |-> "string", v |-> s]
Arr(a) == [t |-> "array", v |-> a]

\* typeof value === 'boolean' / 'string'; Array.isArray(value)
IsBoolean(x) == x.t = "boolean"
IsString(x) == x.t = "string"
IsArray(x) == x.t = "array"
\* typeof value === 'number' && Number.isFinite(value)
IsFiniteNumber(x) == x.t = "number"
\* JavaScript truthiness (!x is ~Truthy(x))
Truthy(x) ==
  CASE x.t = "boolean" -> x.v
    [] x.t = "number" -> x.v # 0
    [] x.t = "string" -> x.v # <<>>
    [] x.t = "array" -> TRUE
    [] x.t = "infinity" -> TRUE
    [] OTHER -> FALSE
\* a === b on primitives (NaN is never equal to itself)
StrictEq(a, b) == a.t # "nan" /\ a.t # "array" /\ a = b
\* obj[key] (undefined when the key is absent)
Get(obj, key) == IF key \in DOMAIN obj THEN obj[key] ELSE Undef
\* const x = value; return Body(x)  (the value is computed once)
Bind(value, Body(_)) == CHOOSE result \in {Body(x) : x \in {value}} : TRUE

(***************************************************************************)
(* Characters and strings                                                  *)
(***************************************************************************)
LowerLetters ==
  <<"a","b","c","d","e","f","g","h","i","j","k","l","m",
    "n","o","p","q","r","s","t","u","v","w","x","y","z">>
UpperLetters ==
  <<"A","B","C","D","E","F","G","H","I","J","K","L","M",
    "N","O","P","Q","R","S","T","U","V","W","X","Y","Z">>
Digits == <<"0","1","2","3","4","5","6","7","8","9">>
Whitespace == {" ", "\t", "\n"}

Range(s) == {s[i] : i \in DOMAIN s}
\* String.prototype.toLowerCase on one character
LowerChar(c) ==
  IF c \in Range(UpperLetters)
    THEN LowerLetters[CHOOSE i \in DOMAIN UpperLetters : UpperLetters[i] = c]
    ELSE c
ToLowerCase(s) == [i \in DOMAIN s |-> LowerChar(s[i])]

RECURSIVE TrimStart(_)
TrimStart(s) ==
  IF s # <<>> /\ Head(s) \in Whitespace THEN TrimStart(Tail(s)) ELSE s
RECURSIVE TrimEnd(_)
TrimEnd(s) ==
  IF s # <<>> /\ s[Len(s)] \in Whitespace
    THEN TrimEnd(SubSeq(s, 1, Len(s) - 1))
    ELSE s
\* String.prototype.trim
Trim(s) == TrimEnd(TrimStart(s))

\* s.startsWith(p)
StartsWith(s, p) == Len(s) >= Len(p) /\ SubSeq(s, 1, Len(p)) = p
\* s.endsWith(p)
EndsWith(s, p) ==
  Len(s) >= Len(p) /\ SubSeq(s, Len(s) - Len(p) + 1, Len(s)) = p
\* s.split(c)[0]
BeforeFirst(s, c) ==
  IF c \in Range(s)
    THEN SubSeq(s, 1, (CHOOSE i \in DOMAIN s :
                         s[i] = c /\ \A j \in 1..(i - 1) : s[j] # c) - 1)
    ELSE s
\* s.includes('..')
HasDoubleDot(s) == \E i \in 1..(Len(s) - 1) : s[i] = "." /\ s[i + 1] = "."

\* UTF-16 code unit order of the characters a normalised hostname may hold
CharCode(c) ==
  CASE c = "-" -> 45
    [] c = "." -> 46
    [] c \in Range(Digits) -> 47 + (CHOOSE i \in DOMAIN Digits : Digits[i] = c)
    [] c \in Range(LowerLetters) ->
         96 + (CHOOSE i \in DOMAIN LowerLetters : LowerLetters[i] = c)
    [] OTHER -> 0
RECURSIVE StrLess(_, _)
\* a < b as Array.prototype.sort's default comparison sees two strings
StrLess(a, b) ==
  IF a = <<>> THEN b # <<>>
  ELSE IF b = <<>> THEN FALSE
  ELSE IF Head(a) = Head(b) THEN StrLess(Tail(a), Tail(b))
  ELSE CharCode(Head(a)) < CharCode(Head(b))

RECURSIVE InsertSorted(_, _)
InsertSorted(sorted, x) ==
  IF sorted = <<>> THEN <<x>>
  ELSE IF StrLess(x, Head(sorted)) THEN <<x>> \o sorted
  ELSE <<Head(sorted)>> \o InsertSorted(Tail(sorted), x)
RECURSIVE SortStrings(_)
\* out.sort()
SortStrings(list) ==
  IF list = <<>> THEN <<>>
  ELSE InsertSorted(SortStrings(SubSeq(list, 1, Len(list) - 1)), list[Len(list)])

(***************************************************************************)
(* constants.js, state_core.js: schema                                     *)
(***************************************************************************)
BREAK_REMINDER_INTERVAL == 40 * 60 * 1000

DEFAULT_DISTRACTING_SITES ==
  << <<"y","o","u","t","u","b","e",".","c","o","m">>,
     <<"f","a","c","e","b","o","o","k",".","c","o","m">>,
     <<"t","w","i","t","t","e","r",".","c","o","m">>,
     <<"x",".","c","o","m">>,
     <<"i","n","s","t","a","g","r","a","m",".","c","o","m">>,
     <<"r","e","d","d","i","t",".","c","o","m">>,
     <<"t","i","k","t","o","k",".","c","o","m">>,
     <<"n","e","t","f","l","i","x",".","c","o","m">>,
     <<"s","p","o","t","i","f","y",".","c","o","m">>,
     <<"s","o","u","n","d","c","l","o","u","d",".","c","o","m">>,
     <<"v","n","e","x","p","r","e","s","s",".","n","e","t">>,
     <<"d","a","n","t","r","i",".","c","o","m",".","v","n">>,
     <<"c","a","f","e","f",".","v","n">> >>
DEFAULT_DEEPWORK_BLOCKED_SITES ==
  << <<"d","i","s","c","o","r","d",".","c","o","m">>,
     <<"m","e","s","s","e","n","g","e","r",".","c","o","m">>,
     <<"w","h","a","t","s","a","p","p",".","c","o","m">> >>

StrList(list) == Arr([i \in DOMAIN list |-> Str(list[i])])

DEFAULT_STATE ==
  [ currentTask |-> Str(<<>>),
    isInFlow |-> Bool(FALSE),
    intentGateEnabled |-> Bool(TRUE),
    breakReminderEnabled |-> Bool(FALSE),
    mindfulnessReminderEnabled |-> Bool(FALSE),
    hasSeenOnboarding |-> Bool(FALSE),
    distractingSites |-> StrList(DEFAULT_DISTRACTING_SITES),
    deepWorkBlockedSites |-> StrList(DEFAULT_DEEPWORK_BLOCKED_SITES),
    reminderStartTime |-> Null,
    reminderInterval |-> Null,
    reminderExpectedEndTime |-> Null,
    mindfulnessLastShownAt |-> Null,
    exerciseReminderEnabled |-> Bool(TRUE),
    exerciseIntervalMs |-> Null,
    exerciseExpectedAt |-> Null,
    exerciseRemainingMs |-> Null,
    exerciseStatsDate |-> Null,
    exerciseStatsPushUps |-> Num(0),
    exerciseStatsSitUps |-> Num(0),
    exerciseStatsSquats |-> Num(0) ]

getDefaultState == DEFAULT_STATE
\* Object.keys(DEFAULT_STATE)
STATE_KEYS == DOMAIN DEFAULT_STATE

UI_ALLOWED_UPDATE_KEYS ==
  { "intentGateEnabled", "breakReminderEnabled", "mindfulnessReminderEnabled",
    "hasSeenOnboarding", "currentTask", "isInFlow", "distractingSites",
    "deepWorkBlockedSites", "exerciseReminderEnabled" }
UNTRUSTED_STATE_KEYS == {"isInFlow"}

MAX_SITE_LIST_ITEMS == 200
MIN_INTERVAL_MS == 60 * 1000
MAX_INTERVAL_MS == 24 * 60 * 60 * 1000
EXERCISE_DEFAULT_INTERVAL_MS == 45 * 60 * 1000
MAX_TASK_LENGTH == 120

(***************************************************************************)
(* state_core.js: normalisation helpers                                    *)
(***************************************************************************)
normalizeBoolean_Truthy(value, fallback) == Bool(Truthy(value))
normalizeBoolean(value, fallback) == IF IsBoolean(value) THEN value ELSE fallback

normalizeString(value, fallback) == IF IsString(value) THEN value ELSE fallback

normalizeNumberOrNull(value, fallback) ==
  IF value = Null THEN Null
  ELSE IF IsFiniteNumber(value) THEN value
  ELSE fallback

normalizeIntervalMs(value, fallback) ==
  IF value = Null THEN Null
  ELSE IF ~IsFiniteNumber(value) THEN fallback
  ELSE IF value.v < MIN_INTERVAL_MS \/ value.v > MAX_INTERVAL_MS THEN fallback
  ELSE value

normalizeTask(value, fallback) ==
  IF ~IsString(value) THEN fallback
  ELSE LET trimmed == Trim(value.v) IN
       IF trimmed = <<>> THEN Str(<<>>)
       ELSE IF Len(trimmed) > MAX_TASK_LENGTH
         THEN Str(SubSeq(trimmed, 1, MAX_TASK_LENGTH))
         ELSE Str(trimmed)

\* raw.replace(/^https?:\/\//, '')
WithoutProtocol(raw) ==
  IF StartsWith(raw, <<"h","t","t","p","s",":","/","/">>)
    THEN SubSeq(raw, 9, Len(raw))
  ELSE IF StartsWith(raw, <<"h","t","t","p",":","/","/">>)
    THEN SubSeq(raw, 8, Len(raw))
  ELSE raw
\* .split('/')[0].split('?')[0].split('#')[0]
BeforePath(withoutProtocol) ==
  BeforeFirst(BeforeFirst(BeforeFirst(withoutProtocol, "/"), "?"), "#")
\* .replace(/^www\./, '')
WithoutWww(cut) ==
  IF StartsWith(cut, <<"w","w","w",".">>) THEN SubSeq(cut, 5, Len(cut)) ELSE cut
\* the checks that drop a hostname (<<>> stands for "skip this entry")
ValidHostname(hostname) ==
  IF \/ hostname = <<>>
     \/ Len(hostname) > 253
     \/ "." \notin Range(hostname)
     \/ Head(hostname) = "." \/ hostname[Len(hostname)] = "."
     \/ HasDoubleDot(hostname)
     \/ \E c \in Range(hostname) :
          c \notin Range(LowerLetters) \cup Range(Digits) \cup {".", "-"}
    THEN <<>>
    ELSE hostname

\* One entry of the list: the hostname it normalises to, or <<>> when dropped.
HostnameOf(rawValue) ==
  IF ~IsString(rawValue) THEN <<>>
  ELSE Bind(Bind(Bind(Bind(ToLowerCase(Trim(rawValue.v)), WithoutProtocol),
                      BeforePath),
                 WithoutWww),
            ValidHostname)

\* out after looking at one more hostname
PushHostname(out, hostname) ==
  IF hostname = <<>> \/ hostname \in Range(out) THEN out ELSE Append(out, hostname)

RECURSIVE CollectHostnames(_, _, _)
\* the for-loop of normalizeDomainList: skip invalid and seen, stop at maxItems
CollectHostnames(values, out, maxItems) ==
  IF values = <<>> \/ (out # <<>> /\ Len(out) >= maxItems) THEN out
  ELSE CollectHostnames(Tail(values), PushHostname(out, HostnameOf(Head(values))),
                        maxItems)

normalizeDomainList(value, fallback, maxItems) ==
  IF ~IsArray(value) THEN fallback
  ELSE StrList(SortStrings(CollectHostnames(value.v, <<>>, maxItems)))

(***************************************************************************)
(* state_core.js: validity invariants, sanitize, computeNextState, diff    *)
(***************************************************************************)
\* Math.max(0, Number.isFinite(x) ? x : 0)
ClampStat(x) == IF IsFiniteNumber(x) /\ x.v > 0 THEN x ELSE Num(0)

\* `!sanitized.isInFlow || !sanitized.currentTask` as the third `if` sees it
NoFlow_IgnoresTask(sanitized) == ~Truthy(sanitized.isInFlow)
NoFlow_IgnoresFlag(sanitized) == ~Truthy(sanitized.currentTask)
NoFlow(sanitized) == ~Truthy(sanitized.isInFlow) \/ ~Truthy(sanitized.currentTask)

\* the assignments of enforceStateValidity, field by field
ValidState(sanitized) ==
  [sanitized EXCEPT
     !.currentTask = IF ~Truthy(@) THEN Str(<<>>) ELSE @,
     !.isInFlow = IF NoFlow(sanitized) THEN Bool(FALSE) ELSE @,
     !.breakReminderEnabled = IF NoFlow(sanitized) THEN Bool(FALSE) ELSE @,
     !.reminderStartTime = IF NoFlow(sanitized) THEN Null ELSE @,
     !.reminderInterval = IF NoFlow(sanitized) THEN Null ELSE @,
     !.reminderExpectedEndTime = IF NoFlow(sanitized) THEN Null ELSE @,
     !.exerciseIntervalMs =
        IF Truthy(sanitized.exerciseReminderEnabled) /\ @ \in {Null, Undef}
          THEN Num(EXERCISE_DEFAULT_INTERVAL_MS)
          ELSE @,
     !.exerciseStatsPushUps = ClampStat(@),
     !.exerciseStatsSitUps = ClampStat(@),
     !.exerciseStatsSquats = ClampStat(@)]

enforceStateValidity(nextState) == Bind(nextState, ValidState)

enforceStateInvariants(nextState) == enforceStateValidity(nextState)

\* normalizeNumberOrNull(value, fallback) ?? fallback
NumberOrFallback_Accumulates(value, fallback) ==
  IF IsFiniteNumber(value) /\ IsFiniteNumber(fallback)
    THEN Num(fallback.v + value.v)
    ELSE fallback
NumberOrFallback(value, fallback) ==
  LET n == normalizeNumberOrNull(value, fallback) IN
  IF n \in {Null, Undef} THEN fallback ELSE n

\* The normaliser that sanitizeStoredState and computeNextState apply to a key.
NormalizeField(key, value, fallback) ==
  CASE key = "currentTask" -> normalizeTask(value, fallback)
    [] key \in {"isInFlow", "intentGateEnabled", "breakReminderEnabled",
                "mindfulnessReminderEnabled", "hasSeenOnboarding",
                "exerciseReminderEnabled"} -> normalizeBoolean(value, fallback)
    [] key \in {"distractingSites", "deepWorkBlockedSites"} ->
         normalizeDomainList(value, fallback, MAX_SITE_LIST_ITEMS)
    [] key \in {"reminderStartTime", "reminderExpectedEndTime",
                "mindfulnessLastShownAt", "exerciseExpectedAt",
                "exerciseRemainingMs"} -> normalizeNumberOrNull(value, fallback)
    [] key \in {"reminderInterval", "exerciseIntervalMs"} ->
         normalizeIntervalMs(value, fallback)
    [] key = "exerciseStatsDate" -> normalizeString(value, fallback)
    [] key \in {"exerciseStatsPushUps", "exerciseStatsSitUps",
                "exerciseStatsSquats"} -> NumberOrFallback(value, fallback)

sanitizeStoredState(storedState) ==
  LET base == getDefaultState
      merged == [key \in STATE_KEYS |->
                   NormalizeField(key, Get(storedState, key), base[key])]
  IN enforceStateInvariants(merged)

computeNextState(currentState, updates) ==
  LET current == currentState
      merged == [key \in STATE_KEYS |->
                   IF key \in DOMAIN updates
                     THEN NormalizeField(key, updates[key], current[key])
                     ELSE current[key]]
  IN enforceStateInvariants(merged)

areStringArraysEqual_ByReference(a, b) == FALSE
areStringArraysEqual(a, b) ==
  /\ IsArray(a) /\ IsArray(b)
  /\ Len(a.v) = Len(b.v)
  /\ \A i \in DOMAIN a.v : StrictEq(a.v[i], b.v[i])

DiffersAt_PatchedKeys(prev, next, key) == key \in UI_ALLOWED_UPDATE_KEYS

\* whether diffState reports `key`
DiffersAt(prev, next, key) ==
  IF IsArray(next[key])
    THEN ~areStringArraysEqual(Get(prev, key), next[key])
    ELSE ~StrictEq(Get(prev, key), next[key])

diffState(prevState, nextState) ==
  [key \in {k \in DOMAIN nextState : DiffersAt(prevState, nextState, k)} |->
     nextState[key]]

\* Object.keys(delta).length === 0
IsEmptyObject(obj) == DOMAIN obj = {}
EmptyObject == [key \in {} |-> Undef]


(***************************************************************************)
(* Program state                                                           *)
(***************************************************************************)
VARIABLES
  state,            \* background_state.js: let state (in-memory snapshot)
  hasInitialized,   \* background_state.js: let hasInitialized
  initPromise,      \* ensureInitialized: where the hydration coroutine stands
  storedState,      \* ensureInitialized: const storedState (result of the read)
  initCallers,      \* handlers that called ensureInitialized() -> the promise they got
  hydrationReads,   \* number of chrome.storage.local.get(null) of hydration
  updateChain,      \* the mutations chained on updateChain, oldest first
  nextId,           \* sequence number given to the next chained mutation
  applied,          \* ids of the mutations in the order they computed nextState
  storage,          \* chrome.storage.local
  storageEvents,    \* chrome.storage.onChanged events not yet delivered
  broadcasts,       \* deltas sent by broadcastStateDelta, in order
  fallback,         \* updateStateSafely running its storage fallback in a page
  budget,           \* how many more inputs of each kind the environment sends
  stateReads,       \* getState() reads by handlers: was the state hydrated?
  gateActive,       \* background_exerciseReminder.js: let gateActive
  intentGate,       \* background_intentGate.js: the tab, its expiry alarm, handlers in flight
  stateDeltaSubscribers, \* background_state.js: const stateDeltaSubscribers, in insertion order
  now,              \* the clock: what Date.now() returns
  lastOp,           \* the pure transition that produced `state` (core runs)
  exercise,         \* background_exerciseReminder.js: the alarm, handlers in flight
  breakReminder,    \* background_breakReminder.js: alarms, tickers, handlers in flight
  observed          \* what callers have seen: promise results, the hydrated state

vars ==
  << state, hasInitialized, initPromise, storedState, initCallers,
     hydrationReads, updateChain, nextId, applied, storage, storageEvents,
     broadcasts, fallback, budget, stateReads, gateActive, intentGate,
     stateDeltaSubscribers, now, lastOp, exercise, breakReminder, observed >>

(***************************************************************************)
(* Inputs                                                                  *)
(***************************************************************************)
Absent == [t |-> "absent", v |-> 0]
\* the object holding the keys of f that are present
Present(f) == [key \in {k \in DOMAIN f : f[k] # Absent} |-> f[key]]

TaskA == <<"A">>
TaskB == <<"B">>
StartAt == 1000
EndAt == StartAt + MIN_INTERVAL_MS

\* { ...a, ...b }
Merge(a, b) ==
  [key \in DOMAIN a \cup DOMAIN b |-> IF key \in DOMAIN b THEN b[key] ELSE a[key]]

\* Timer fields a patch may carry: none, a valid triple, an invalid triple.
TimerPatches ==
  { EmptyObject,
    [reminderStartTime |-> Num(StartAt), reminderInterval |-> Num(MIN_INTERVAL_MS),
     reminderExpectedEndTime |-> Num(EndAt)],
    [reminderStartTime |-> NaN, reminderInterval |-> Num(MIN_INTERVAL_MS - 1),
     reminderExpectedEndTime |-> Null] }

\* Partial updates handed to computeNextState in the core runs: well-typed,
\* mistyped, out-of-range and whitespace-only values.
CorePatches ==
  { Merge(Present(f), timers) :
      f \in [ currentTask : {Absent, Str(<<>>), Str(<<" ">>), Str(<<" ", "A", " ">>)},
              isInFlow : {Absent, Bool(TRUE), Bool(FALSE), Str(<<"y">>)},
              breakReminderEnabled : {Absent, Bool(TRUE)} ],
      timers \in TimerPatches }

\* A persisted Deep Work session, as updateState leaves it in storage.
RunningSession ==
  [DEFAULT_STATE EXCEPT !.currentTask = Str(TaskA),
                        !.isInFlow = Bool(TRUE),
                        !.breakReminderEnabled = Bool(TRUE),
                        !.reminderStartTime = Num(StartAt),
                        !.reminderInterval = Num(MIN_INTERVAL_MS),
                        !.reminderExpectedEndTime = Num(EndAt),
                        !.exerciseIntervalMs = Num(EXERCISE_DEFAULT_INTERVAL_MS)]

\* Site lists as the options page stores them after the user edited them.
UserSites ==
  [distractingSites |-> StrList(<< <<"x", ".", "c", "o", "m">> >>),
   deepWorkBlockedSites |-> StrList(<< <<"d", ".", "c", "o">> >>)]

\* What chrome.storage.local holds when the service worker wakes in the runtime
\* runs: a persisted session, a record with a mistyped flag and a stale key,
\* and a record whose session fields a fallback wrote before the timer ran.
ColdStores ==
  { Merge(RunningSession, UserSites),
    Merge(UserSites,
          [currentTask |-> Str(TaskB), isInFlow |-> Str(<<"y">>),
           reminderInterval |-> Num(MIN_INTERVAL_MS), legacyKey |-> Bool(TRUE)]),
    Merge(UserSites,
          [currentTask |-> Str(TaskA), isInFlow |-> Bool(TRUE),
           intentGateEnabled |-> Bool(FALSE)]) }

\* Contents chrome.storage.local may hold when the service worker wakes:
\* nothing (first run), a persisted session, and records an older version or
\* a fallback left behind (mistyped flag, timer without flow, stale key).
RawStores ==
  { EmptyObject,
    RunningSession,
    [isInFlow |-> Bool(TRUE), breakReminderEnabled |-> Bool(TRUE),
     reminderStartTime |-> Num(StartAt), reminderInterval |-> Num(MIN_INTERVAL_MS),
     reminderExpectedEndTime |-> Num(EndAt)],
    [currentTask |-> Str(TaskB), isInFlow |-> Str(<<"y">>),
     reminderInterval |-> Num(MIN_INTERVAL_MS), legacyKey |-> Bool(TRUE)] }

(***************************************************************************)
(* The runtime before anything ran (module evaluation of background_state) *)
(***************************************************************************)
\* no call of updateStateSafely was made. pc: where the call stands; input:
\* its argument; payload: filteredPayload; response: what sendMessageSafely
\* resolved with; stored: storedState; delta: what it wrote; result: what it
\* returned
NoFallback ==
  [pc |-> "none", input |-> Undef, payload |-> EmptyObject, response |-> Undef,
   stored |-> EmptyObject, delta |-> EmptyObject, arrival |-> "none",
   result |-> Undef]
NoBudget == [updates |-> 0, fallbacks |-> 0, writes |-> 0]
NoOp == [op |-> "none", input |-> EmptyObject, prev |-> EmptyObject]
\* a function handed to onStateDelta by the module `fn`; throws: whether
\* its call raises an exception
Subscriber(fn) == [fn |-> fn, throws |-> FALSE]
Faulty(fn) == [fn |-> fn, throws |-> TRUE]

\* onStateDelta(fn): stateDeltaSubscribers.add(fn); each module subscribes
\* one function (if (unsubscribeStateDelta) return)
onStateDelta(subscribers, subscriber) ==
  IF \E k \in DOMAIN subscribers : subscribers[k].fn = subscriber.fn
    THEN subscribers
    ELSE Append(subscribers, subscriber)

\* the subscriptions of the init functions that were called
SubscribersOf(callers) ==
  IF "initBreakReminder" \in DOMAIN callers
    THEN onStateDelta(<<>>, Subscriber("breakReminder"))
    ELSE <<>>

\* no message has been answered
NoReply ==
  [action |-> "none", sender |-> Undef, message |-> Undef, status |-> "none",
   reply |-> EmptyObject, id |-> 0]
\* initIntentGate ran on a browser whose tab shows a blank page: no expiry
\* alarm, no handler in flight, no redirect made, no delta seen
NoGate ==
  [tab |-> Str(<<"a","b","o","u","t",":","b","l","a","n","k">>), alarm |-> Null,
   calls |-> {}, blocked |-> [by |-> "none", url |-> Undef], seen |-> 0]
\* no snapshot of the remaining time was taken, none was used
NoSnapshot == [ms |-> 0 - 1, at |-> 0]
NoResume == [ms |-> 0 - 1, snapshot |-> NoSnapshot, started |-> 0]
\* initExerciseReminder has not run: no listener, no alarm, no gate tab, no
\* handler in flight, no delta seen; for the record: the ids of the
\* mutations that start a session, the latest snapshot ensureExerciseSchedule
\* took and the latest one it resumed from
NoExercise ==
  [init |-> FALSE, alarm |-> Null, tab |-> FALSE, calls |-> {}, seen |-> 0,
   starts |-> {}, snapshot |-> NoSnapshot, resumed |-> NoResume]
\* initBreakReminder has not run: no alarm, no service-worker ticker
\* (operaSwBadgeTickTimeoutId), hasOffscreenBadgeTicker false, no handler in
\* flight, no delta seen
NoBreakReminder ==
  [alarms |-> {}, ticker |-> FALSE, offscreen |-> FALSE, calls |-> {}, seen |-> 0]
\* no promise of updateState has resolved, hydration has installed no state,
\* no chrome.storage.local.set has failed, no break notification was raised,
\* no subscriber was invoked, hydration has set nothing (set) and has not
\* completed (left: the store when it completed), no exercise submission was
\* accepted
NothingObserved ==
  [resolved |-> {}, hydrated |-> EmptyObject, failed |-> {}, reply |-> NoReply,
   notified |-> {}, badge |-> <<>>, invoked |-> <<>>, set |-> EmptyObject,
   left |-> Undef, accepted |-> <<>>]

ModuleLoaded ==
  /\ state = getDefaultState
  /\ hasInitialized = FALSE
  /\ initPromise = "null"
  /\ storedState = EmptyObject
  /\ initCallers = EmptyObject
  /\ hydrationReads = 0
  /\ updateChain = <<>>
  /\ nextId = 1
  /\ applied = <<>>
  /\ storageEvents = <<>>
  /\ broadcasts = <<>>
  /\ fallback = NoFallback
  /\ stateReads = {}
  /\ gateActive = FALSE
  /\ intentGate = NoGate
  /\ stateDeltaSubscribers = SubscribersOf(initCallers)
  /\ now = StartAt + 1
  /\ lastOp = NoOp
  /\ exercise = NoExercise
  /\ breakReminder = NoBreakReminder
  /\ observed = NothingObserved

(***************************************************************************)
(* Core runs: the closure of sanitizeStoredState and computeNextState      *)
(***************************************************************************)
RuntimeUntouched ==
  UNCHANGED << hasInitialized, initPromise, storedState, initCallers,
               hydrationReads, updateChain, nextId, applied, storage,
               storageEvents, broadcasts, fallback, budget, stateReads,
               gateActive, intentGate, stateDeltaSubscribers, now, observed, exercise, breakReminder >>

CoreInit ==
  /\ ModuleLoaded
  /\ storage = EmptyObject
  /\ budget = NoBudget

CoreSanitize ==
  /\ \E raw \in RawStores :
       /\ state' = sanitizeStoredState(raw)
       /\ lastOp' = [op |-> "sanitizeStoredState", input |-> raw, prev |-> state]
  /\ RuntimeUntouched

CoreUpdate ==
  /\ \E updates \in CorePatches :
       /\ state' = computeNextState(state, updates)
       /\ lastOp' = [op |-> "computeNextState", input |-> updates, prev |-> state]
  /\ RuntimeUntouched

CoreNext == CoreSanitize \/ CoreUpdate

SpecCore == CoreInit /\ [][CoreNext]_vars

(***************************************************************************)
(* Cross-field invariants of a state                                       *)
(***************************************************************************)
InFlow(s) == s.isInFlow = Bool(TRUE)
HasTask(s) == IsString(s.currentTask) /\ s.currentTask.v # <<>>
TimerFields == {"reminderStartTime", "reminderInterval", "reminderExpectedEndTime"}
TimerCleared(s) == \A key \in TimerFields : s[key] = Null
TimerSet(s) == \A key \in TimerFields : s[key] # Null

\* C3: in every state produced by sanitizeStoredState or computeNextState,
\* isInFlow = true implies currentTask is a non-empty string; a patch that
\* makes the task empty forces isInFlow to false in the same transition.
C3_InFlowRequiresTask ==
  /\ IsBoolean(state.isInFlow)
  /\ InFlow(state) => HasTask(state)
  /\ ( /\ lastOp.op = "computeNextState"
       /\ "currentTask" \in DOMAIN lastOp.input
       /\ IsString(lastOp.input.currentTask)
       /\ Trim(lastOp.input.currentTask.v) = <<>> )
     => (state.isInFlow = Bool(FALSE) /\ state.currentTask = Str(<<>>))

\* C3 witness: a session was in flow and a patch carrying a whitespace-only
\* task (and asking for isInFlow = true) was applied to it.
C3_Witness ==
  /\ lastOp.op = "computeNextState"
  /\ InFlow(lastOp.prev)
  /\ "currentTask" \in DOMAIN lastOp.input
  /\ lastOp.input.currentTask = Str(<<" ">>)
  /\ Get(lastOp.input, "isInFlow") = Bool(TRUE)
  /\ state.isInFlow = Bool(FALSE)

\* C4: in every state produced by sanitizeStoredState or computeNextState,
\* isInFlow = false implies the three reminder timer fields are null and
\* breakReminderEnabled is false, whatever the patch supplied for them.
C4_NoFlowNoTimer ==
  ~InFlow(state) =>
    /\ state.isInFlow = Bool(FALSE)
    /\ TimerCleared(state)
    /\ state.breakReminderEnabled = Bool(FALSE)

\* C4 witness: a patch supplied all three timer values and
\* breakReminderEnabled = true, and the resulting state is not in flow.
C4_Witness ==
  /\ lastOp.op = "computeNextState"
  /\ \A key \in TimerFields :
       key \in DOMAIN lastOp.input /\ IsFiniteNumber(lastOp.input[key])
  /\ Get(lastOp.input, "breakReminderEnabled") = Bool(TRUE)
  /\ ~InFlow(state)

\* Patches to the exercise statistics and a patch naming a key the schema
\* does not have.
StatPatches ==
  { [exerciseStatsPushUps |-> Num(3)],
    [exerciseStatsPushUps |-> Num(0 - 5), exerciseStatsSitUps |-> Null],
    [exerciseStatsSquats |-> Str(<<"y">>), legacyKey |-> Bool(TRUE),
     currentTask |-> Str(<<" ", "A", " ">>), isInFlow |-> Bool(TRUE)] }

\* C14: for every state s and every patch p (mistyped, out-of-range and
\* unknown fields included), computeNextState(computeNextState(s, p), p)
\* equals computeNextState(s, p), and diffState of the first result against
\* the second is empty.
C14_SamePatchTwice ==
  \A updates \in CorePatches \cup StatPatches :
    \E once \in {computeNextState(state, updates)} :
      \E twice \in {computeNextState(once, updates)} :
        /\ twice = once
        /\ IsEmptyObject(diffState(once, twice))

\* C14 witness: a patch with a mistyped flag and a task to trim changed the
\* state, and a statistics patch would change it again.
C14_Witness ==
  /\ lastOp.op = "computeNextState"
  /\ lastOp.prev # state
  /\ Get(lastOp.input, "isInFlow") = Str(<<"y">>)
  /\ Get(lastOp.input, "currentTask") = Str(<<" ", "A", " ">>)
  /\ computeNextState(state, lastOp.input) = state
  /\ \E updates \in StatPatches : computeNextState(state, updates) # state

(***************************************************************************)
(* chrome.storage.local: set/remove take effect when issued, the change    *)
(* event and the completion callback are delivered later, in any order.    *)
(***************************************************************************)
\* the keys of `items` whose stored value a set(items) changes
ChangedKeys(items) == {key \in DOMAIN items : Get(storage, key) # items[key]}

\* chrome.storage.local.set(items): the store afterwards
StorageAfterSet(items) == Merge(storage, items)

\* chrome.storage.onChanged after set(items) issued by `source`
EventsAfterSet(items, source) ==
  IF ChangedKeys(items) = {} THEN storageEvents
  ELSE Append(storageEvents,
              [changes |-> [key \in ChangedKeys(items) |-> items[key]],
               source |-> source])

\* chrome.storage.local.remove(keys): the store afterwards
StorageAfterRemove(keys) == [key \in DOMAIN storage \ keys |-> storage[key]]

\* chrome.storage.onChanged after remove(keys): newValue is undefined
EventsAfterRemove(keys, source) ==
  IF keys \cap DOMAIN storage = {} THEN storageEvents
  ELSE Append(storageEvents,
              [changes |-> [key \in keys \cap DOMAIN storage |-> Undef],
               source |-> source])

(***************************************************************************)
(* background_state.js: storage keys kept at hydration                     *)
(***************************************************************************)
NON_STATE_STORAGE_KEYS == {"intentGateReasonLog"}
NON_STATE_STORAGE_PREFIXES ==
  { <<"i","n","t","e","n","t","G","a","t","e","T","a","b","_">>,
    <<"i","n","t","e","n","t","G","a","t","e","P","e","n","d","i","n","g","_">> }

\* the characters of the non-state storage keys that occur in the model
KeyChars(key) ==
  CASE key = "legacyKey" -> <<"l","e","g","a","c","y","K","e","y">>
    [] key = "intentGateTab_7" ->
         <<"i","n","t","e","n","t","G","a","t","e","T","a","b","_","7">>
    [] key = "intentGatePending_7" ->
         <<"i","n","t","e","n","t","G","a","t","e","P","e","n","d","i","n","g","_","7">>
    [] key = "intentGateTab" ->
         <<"i","n","t","e","n","t","G","a","t","e","T","a","b">>
    [] key = "chatgptZenMode" ->
         <<"c","h","a","t","g","p","t","Z","e","n","M","o","d","e">>
    [] OTHER -> <<>>

isAllowedStorageKey_SchemaOnly(key) == key \in STATE_KEYS
isAllowedStorageKey(key) ==
  \/ key \in STATE_KEYS
  \/ key \in NON_STATE_STORAGE_KEYS
  \/ \E prefix \in NON_STATE_STORAGE_PREFIXES : StartsWith(KeyChars(key), prefix)

\* areStateValuesEqual(a, b) of background_state.js
areStateValuesEqual(a, b) ==
  IF IsArray(a) \/ IsArray(b) THEN areStringArraysEqual(a, b) ELSE StrictEq(a, b)

(***************************************************************************)
(* background_breakReminder.js: the break reminder, a subscriber of the    *)
(* state deltas. Each operator gives the updateState calls the function    *)
(* makes when it runs on the state `s` that getState() returns.            *)
(***************************************************************************)
\* setupInternalStateSubscription ran: initBreakReminder was called
Subscribed == "initBreakReminder" \in DOMAIN initCallers

\* !isInFlow || !currentTask || !breakReminderEnabled
SessionValid(s) ==
  Truthy(s.isInFlow) /\ Truthy(s.currentTask) /\ Truthy(s.breakReminderEnabled)

EndCycle_FlagOnly == [isInFlow |-> Bool(FALSE)]
\* the update that ends the Deep Work cycle
EndCycle ==
  [isInFlow |-> Bool(FALSE), currentTask |-> Str(<<>>),
   breakReminderEnabled |-> Bool(FALSE)]

handleBreakReminderEnd(s) ==
  IF ~SessionValid(s) THEN <<>>
  ELSE IF IsFiniteNumber(s.reminderExpectedEndTime) /\ now < s.reminderExpectedEndTime.v
    THEN <<>>
  ELSE << [origin |-> "handleBreakReminderEnd", updates |-> EndCycle] >>

\* reminderInterval || BREAK_REMINDER_INTERVAL
IntervalOf(s) ==
  IF Truthy(s.reminderInterval) THEN s.reminderInterval
  ELSE Num(BREAK_REMINDER_INTERVAL)
\* reminderStartTime || Date.now()
StartTimeOf(s) ==
  IF Truthy(s.reminderStartTime) THEN s.reminderStartTime ELSE Num(now)
\* reminderExpectedEndTime || (startTime + interval)
ExpectedEndTimeOf(s) ==
  IF Truthy(s.reminderExpectedEndTime) THEN s.reminderExpectedEndTime
  ELSE Num(StartTimeOf(s).v + IntervalOf(s).v)

\* the updateState of initializeBreakReminderIfEnabled
TimerUpdate(s) ==
  [reminderStartTime |-> StartTimeOf(s), reminderInterval |-> IntervalOf(s),
   reminderExpectedEndTime |-> ExpectedEndTimeOf(s)]

initializeBreakReminderIfEnabled_SchedulesOnly(s) ==
  IF SessionValid(s) /\ now >= ExpectedEndTimeOf(s).v
    THEN handleBreakReminderEnd(s)
    ELSE <<>>
initializeBreakReminderIfEnabled(s) ==
  IF ~SessionValid(s) THEN <<>>
  ELSE IF now >= ExpectedEndTimeOf(s).v THEN handleBreakReminderEnd(s)
  ELSE IF \/ ~Truthy(s.reminderStartTime)
          \/ ~Truthy(s.reminderExpectedEndTime)
          \/ ~Truthy(s.reminderInterval)
    THEN << [origin |-> "initializeBreakReminderIfEnabled", updates |-> TimerUpdate(s)] >>
  ELSE <<>>

shouldSync(updates) ==
  DOMAIN updates \cap
    {"breakReminderEnabled", "isInFlow", "currentTask", "reminderStartTime",
     "reminderInterval", "reminderExpectedEndTime"} # {}

shouldStop(updates) ==
  \E key \in {"breakReminderEnabled", "isInFlow", "currentTask"} :
    key \in DOMAIN updates /\ ~Truthy(updates[key])

\* handleStateUpdated(delta); its ensureInitialized().then(...) runs on the
\* state the mutation left
handleStateUpdated(s, updates) ==
  IF shouldSync(updates) /\ ~shouldStop(updates)
    THEN initializeBreakReminderIfEnabled(s)
    ELSE <<>>

\* stateDeltaSubscribers.forEach((fn) => { try { fn(snapshot, delta) }
\* catch (error) { console.error(...) } }): the functions called, in order
forEachSubscriber_NoCatch(subscribers) ==
  LET throwing == {k \in DOMAIN subscribers : subscribers[k].throws}
  IN IF throwing = {} THEN subscribers
     ELSE SubSeq(subscribers, 1, CHOOSE k \in throwing : \A j \in throwing : k <= j)
forEachSubscriber(subscribers) ==
  [k \in 1..Len(subscribers) |-> subscribers[k]]

\* the calls of notifyStateDeltaSubscribers(nextState, delta) for a task
Invocations(task, delta) ==
  IF IsEmptyObject(delta) THEN <<>>
  ELSE LET called == forEachSubscriber(stateDeltaSubscribers)
       IN [k \in 1..Len(called) |->
             [id |-> task.id, fn |-> called[k].fn, threw |-> called[k].throws]]

\* notifyStateDeltaSubscribers(nextState, delta) of background_state.js:
\* the updateState calls made by the subscribers it invokes
notifyStateDeltaSubscribers(s, delta) ==
  IF IsEmptyObject(delta) THEN <<>>
  ELSE LET called == forEachSubscriber(stateDeltaSubscribers)
       IN IF \E k \in DOMAIN called : called[k] = Subscriber("breakReminder")
            THEN handleStateUpdated(s, delta)
            ELSE <<>>

\* the calls of updateState made by a subscriber join the end of the chain
AppendCalls(chain, calls) ==
  chain \o [k \in 1..Len(calls) |->
             [id |-> nextId + k - 1, kind |-> "updateState",
              origin |-> calls[k].origin, updates |-> calls[k].updates,
              pc |-> "queued", delta |-> EmptyObject]]

(***************************************************************************)
(* ensureInitialized                                                       *)
(***************************************************************************)
\* ensureInitialized() starts a hydration: neither hydrated nor in flight
NeedsHydrationRead_NoMemo == ~hasInitialized
NeedsHydrationRead == ~hasInitialized /\ initPromise = "null"

\* the module variables after a call of ensureInitialized()
EnsureInitializedCall ==
  IF NeedsHydrationRead
    THEN /\ initPromise' = "get"
         /\ hydrationReads' = hydrationReads + 1
    ELSE UNCHANGED << initPromise, hydrationReads >>

\* Object.keys(storedState).filter((key) => !isAllowedStorageKey(key))
DeprecatedKeys(stored) == {key \in DOMAIN stored : ~isAllowedStorageKey(key)}

\* filteredStoredState and deltaToStore of ensureInitialized
DeltaToStore(stored) ==
  diffState([key \in DOMAIN stored \cap STATE_KEYS |-> stored[key]],
            sanitizeStoredState(stored))

\* handlers waiting on initPromise go on
ResolveInitCallers ==
  [h \in DOMAIN initCallers |-> [initCallers[h] EXCEPT !.waiting = FALSE]]

\* ... and then read the state with getState()
ReadsOfResolvedCallers ==
  {[handler |-> h, hydrated |-> TRUE] :
     h \in {c \in DOMAIN initCallers : initCallers[c].waiting}}

\* initBreakReminder: ensureInitialized().then(() => initializeBreakReminderIfEnabled())
InitBreakReminderThen(s) ==
  IF Subscribed /\ initCallers["initBreakReminder"].waiting
    THEN initializeBreakReminderIfEnabled(s)
    ELSE <<>>

\* state = nextState; hasInitialized = true; ...; finally initPromise = null;
\* the callers waiting on the promise go on
HydrationCompletes(stored) ==
  /\ state' = sanitizeStoredState(stored)
  /\ hasInitialized' = TRUE
  /\ initPromise' = "null"
  /\ initCallers' = ResolveInitCallers
  /\ stateReads' = stateReads \cup ReadsOfResolvedCallers
  /\ storedState' = EmptyObject
  /\ observed' = [observed EXCEPT !.hydrated = sanitizeStoredState(stored),
                                  !.left = storage]
  /\ \E calls \in {InitBreakReminderThen(sanitizeStoredState(stored))} :
       /\ updateChain' = AppendCalls(updateChain, calls)
       /\ nextId' = nextId + Len(calls)

\* from `const nextState = sanitizeStoredState(storedState)` on
HydrationSanitizes(stored) ==
  \E deltaToStore \in {DeltaToStore(stored)} :
    IF IsEmptyObject(deltaToStore)
      THEN /\ HydrationCompletes(stored)
           /\ UNCHANGED << storage, storageEvents >>
      ELSE /\ storage' = StorageAfterSet(deltaToStore)
           /\ storageEvents' = EventsAfterSet(deltaToStore, "hydration")
           /\ initPromise' = "set"
           /\ storedState' = stored
           /\ observed' = [observed EXCEPT !.set = deltaToStore]
           /\ UNCHANGED << state, hasInitialized, initCallers, stateReads,
                           updateChain, nextId >>

(***************************************************************************)
(* The update chain                                                        *)
(***************************************************************************)
RemoveAt(seq, i) == SubSeq(seq, 1, i - 1) \o SubSeq(seq, i + 1, Len(seq))

\* updateChain = updateChain.then(task): a task starts once every task
\* chained before it has settled
CanStart_Unchained(i) == TRUE
CanStart(i) == i = 1

\* the task is at a point where only microtasks separate it from going on
Startable(i) ==
  \/ updateChain[i].pc = "queued"
  \/ updateChain[i].pc = "init" /\ hasInitialized

\* promise continuations run before the next storage callback or event
MicrotasksPending ==
  \E i \in DOMAIN updateChain : CanStart(i) /\ Startable(i)

ChainTask(kind, origin, updates) ==
  [id |-> nextId, kind |-> kind, origin |-> origin, updates |-> updates,
   pc |-> "queued", delta |-> EmptyObject]

\* deltaToPersist of the reconcile task; updateState persists the whole delta
DeltaToPersist(task, delta) ==
  IF task.kind = "updateState" THEN delta
  ELSE [key \in {k \in DOMAIN delta :
                   \/ k \notin DOMAIN task.updates
                   \/ ~areStateValuesEqual(task.updates[k], delta[k])} |->
          delta[key]]

\* updateState(updates): chain the mutation
UpdateStateCall(updates, caller) ==
  /\ budget.updates > 0
  /\ budget' = [budget EXCEPT !.updates = @ - 1]
  /\ updateChain' = Append(updateChain, ChainTask("updateState", caller, updates))
  /\ nextId' = nextId + 1
  /\ UNCHANGED << state, hasInitialized, initPromise, storedState, initCallers,
                  hydrationReads, applied, storage, storageEvents, broadcasts,
                  fallback, stateReads, gateActive, intentGate, stateDeltaSubscribers, now, lastOp,
                  observed, exercise, breakReminder >>

\* the promise of the task resolves with `result` (`return true`, or false
\* from the catch); handleBreakReminderEnd, which awaits the promise, goes on
\* in the same run of microtasks: stopBreakReminder();
\* showBreakReminderNotification()
Resolved(task, result) ==
  [observed EXCEPT !.resolved = @ \cup {[id |-> task.id, result |-> result]},
                   !.notified = IF task.origin = "handleBreakReminderEnd"
                                  THEN @ \cup {task.id} ELSE @]

\* the task notified the subscribers of delta and its promise resolves
Notified(task, delta, result) ==
  [Resolved(task, result) EXCEPT !.invoked = @ \o Invocations(task, delta)]

\* what the task does once it knows nextState, delta and deltaToPersist
SettleTask(i, nextState, delta, deltaToPersist) ==
  IF IsEmptyObject(delta)
    THEN /\ updateChain' = RemoveAt(updateChain, i)
         /\ observed' = Resolved(updateChain[i], TRUE)
         /\ UNCHANGED << state, storage, storageEvents, broadcasts, nextId >>
  ELSE IF IsEmptyObject(deltaToPersist)
    THEN /\ state' = nextState
         /\ broadcasts' = Append(broadcasts, [id |-> updateChain[i].id, delta |-> delta])
         /\ observed' = Notified(updateChain[i], delta, TRUE)
         /\ \E calls \in {notifyStateDeltaSubscribers(nextState, delta)} :
              /\ updateChain' = AppendCalls(RemoveAt(updateChain, i), calls)
              /\ nextId' = nextId + Len(calls)
         /\ UNCHANGED << storage, storageEvents >>
  ELSE /\ state' = nextState
       /\ storage' = StorageAfterSet(deltaToPersist)
       /\ storageEvents' = EventsAfterSet(deltaToPersist, updateChain[i].kind)
       /\ updateChain' = [updateChain EXCEPT ![i].pc = "persist", ![i].delta = delta]
       /\ UNCHANGED << broadcasts, nextId, observed >>

\* the body of a chained task from computeNextState to the storage write
ApplyTask(i) ==
  /\ applied' = Append(applied, updateChain[i].id)
  /\ \E nextState \in {computeNextState(state, updateChain[i].updates)} :
       \E delta \in {diffState(state, nextState)} :
         \E deltaToPersist \in {DeltaToPersist(updateChain[i], delta)} :
           SettleTask(i, nextState, delta, deltaToPersist)

\* a chained task runs: await ensureInitialized(), then the mutation
RunTask(i) ==
  /\ i \in DOMAIN updateChain
  /\ CanStart(i)
  /\ Startable(i)
  /\ IF hasInitialized
       THEN /\ ApplyTask(i)
            /\ UNCHANGED << initPromise, hydrationReads >>
       ELSE /\ EnsureInitializedCall
            /\ updateChain' = [updateChain EXCEPT ![i].pc = "init"]
            /\ UNCHANGED << state, applied, storage, storageEvents, broadcasts,
                            nextId, observed >>
  /\ UNCHANGED << hasInitialized, storedState, initCallers, fallback,
                  budget, stateReads, gateActive, intentGate, stateDeltaSubscribers, now, lastOp, exercise, breakReminder >>

\* the callback of the task's chrome.storage.local.set: notify and broadcast
PersistCallback(i) ==
  /\ i \in DOMAIN updateChain
  /\ updateChain[i].pc = "persist"
  /\ ~MicrotasksPending
  /\ broadcasts' = Append(broadcasts, [id |-> updateChain[i].id,
                                       delta |-> updateChain[i].delta])
  /\ \E calls \in {notifyStateDeltaSubscribers(state, updateChain[i].delta)} :
       /\ updateChain' = AppendCalls(RemoveAt(updateChain, i), calls)
       /\ nextId' = nextId + Len(calls)
  /\ observed' = Notified(updateChain[i], updateChain[i].delta, TRUE)
  /\ UNCHANGED << state, hasInitialized, initPromise, storedState, initCallers,
                  hydrationReads, applied, storage, storageEvents,
                  fallback, budget, stateReads, gateActive, intentGate, stateDeltaSubscribers, now, lastOp, exercise, breakReminder >>

\* an updateState task runs and its chrome.storage.local.set fails (quota,
\* I/O): nothing is stored, no onChanged event is raised, and the callback
\* will be invoked with chrome.runtime.lastError set
ApplyTaskSetFails(i) ==
  /\ i \in DOMAIN updateChain
  /\ CanStart(i)
  /\ Startable(i)
  /\ hasInitialized
  /\ updateChain[i].kind = "updateState"
  /\ \E nextState \in {computeNextState(state, updateChain[i].updates)} :
       \E delta \in {diffState(state, nextState)} :
         /\ ~IsEmptyObject(delta)
         /\ state' = nextState
         /\ updateChain' = [updateChain EXCEPT ![i].pc = "persist", ![i].delta = delta]
  /\ applied' = Append(applied, updateChain[i].id)
  /\ observed' = [observed EXCEPT !.failed = @ \cup {updateChain[i].id}]
  /\ UNCHANGED << hasInitialized, initPromise, storedState, initCallers,
                  hydrationReads, nextId, storage, storageEvents, broadcasts,
                  fallback, budget, stateReads, gateActive, intentGate, stateDeltaSubscribers, now, lastOp, exercise, breakReminder >>

(***************************************************************************)
(* setupStorageReconcileListener: the chrome.storage.onChanged listener    *)
(***************************************************************************)
\* rawUpdates: the changed keys the UI fallback is allowed to write
RawUpdates(changes) ==
  [key \in DOMAIN changes \cap UI_ALLOWED_UPDATE_KEYS |-> changes[key]]

matchesCurrentState(rawUpdates) ==
  \A key \in DOMAIN rawUpdates : areStateValuesEqual(state[key], rawUpdates[key])

DeliverStorageEvent ==
  /\ storageEvents # <<>>
  /\ ~MicrotasksPending
  /\ storageEvents' = Tail(storageEvents)
  /\ LET event == Head(storageEvents)
         rawUpdates == RawUpdates(event.changes)
     IN IF /\ hasInitialized
           /\ ~IsEmptyObject(rawUpdates)
           /\ ~matchesCurrentState(rawUpdates)
          THEN /\ updateChain' =
                    Append(updateChain, ChainTask("reconcile", event.source, rawUpdates))
               /\ nextId' = nextId + 1
          ELSE UNCHANGED << updateChain, nextId >>
  /\ UNCHANGED << state, hasInitialized, initPromise, storedState, initCallers,
                  hydrationReads, applied, storage, broadcasts, fallback,
                  budget, stateReads, gateActive, intentGate, stateDeltaSubscribers, now, lastOp,
                  observed, exercise, breakReminder >>

(***************************************************************************)
(* Hydration: the callbacks of the storage calls of ensureInitialized      *)
(***************************************************************************)
\* callback of chrome.storage.local.get(null)
HydrationGetCallback ==
  /\ initPromise = "get"
  /\ ~MicrotasksPending
  /\ IF DeprecatedKeys(storage) # {}
       THEN /\ storedState' = storage
            /\ storage' = StorageAfterRemove(DeprecatedKeys(storage))
            /\ storageEvents' = EventsAfterRemove(DeprecatedKeys(storage), "hydration")
            /\ initPromise' = "remove"
            /\ UNCHANGED << state, hasInitialized, initCallers, stateReads,
                            updateChain, nextId, observed >>
       ELSE HydrationSanitizes(storage)
  /\ UNCHANGED << hydrationReads, applied, broadcasts,
                  fallback, budget, gateActive, intentGate, stateDeltaSubscribers, now, lastOp, exercise, breakReminder >>

\* callback of chrome.storage.local.remove(deprecatedKeys)
HydrationRemoveCallback ==
  /\ initPromise = "remove"
  /\ ~MicrotasksPending
  /\ HydrationSanitizes(storedState)
  /\ UNCHANGED << hydrationReads, applied,
                  broadcasts, fallback, budget, gateActive, intentGate, stateDeltaSubscribers, now, lastOp, exercise, breakReminder >>

\* callback of chrome.storage.local.set(deltaToStore)
HydrationSetCallback ==
  /\ initPromise = "set"
  /\ ~MicrotasksPending
  /\ HydrationCompletes(storedState)
  /\ UNCHANGED << hydrationReads, applied,
                  storage, storageEvents, broadcasts, fallback, budget,
                  gateActive, intentGate, stateDeltaSubscribers, now, lastOp, exercise, breakReminder >>

(***************************************************************************)
(* Handlers woken by external events                                       *)
(***************************************************************************)
\* handlers that begin with ensureInitialized() and then only read the
\* state: the getState message, the intent gate's navigation handler and
\* the badge alarm of the break reminder
Handlers == {"getState", "handleBeforeNavigate", "handleAlarm"}

HandlerCall(h) ==
  /\ h \notin DOMAIN initCallers
  /\ ~MicrotasksPending
  /\ EnsureInitializedCall
  /\ IF hasInitialized
       THEN /\ initCallers' =
                 initCallers @@ (h :> [joined |-> "after", waiting |-> FALSE,
                                       promise |-> 0])
            /\ stateReads' = stateReads \cup {[handler |-> h, hydrated |-> TRUE]}
       ELSE /\ initCallers' =
                 initCallers @@
                   (h :> [joined |-> IF initPromise = "null" THEN "first" ELSE "inflight",
                          waiting |-> TRUE, promise |-> hydrationReads'])
            /\ UNCHANGED stateReads
  /\ UNCHANGED << state, hasInitialized, storedState, updateChain, nextId,
                  applied, storage, storageEvents, broadcasts, fallback, budget,
                  gateActive, intentGate, stateDeltaSubscribers, now, lastOp,
                  observed, exercise, breakReminder >>

\* background_exerciseReminder.js: export async function triggerExerciseGateNow,
\* the entry point behind the triggerExerciseReminder message; it reads
\* getState() on entry
triggerExerciseGateNow ==
  /\ \A read \in stateReads : read.handler # "triggerExerciseGateNow"
  /\ ~MicrotasksPending
  /\ stateReads' =
       stateReads \cup {[handler |-> "triggerExerciseGateNow", hydrated |-> hasInitialized]}
  /\ gateActive' =
       (gateActive \/ (Truthy(state.exerciseReminderEnabled) /\ ~Truthy(state.isInFlow)))
  /\ UNCHANGED << state, hasInitialized, initPromise, storedState, initCallers,
                  hydrationReads, updateChain, nextId, applied, storage,
                  storageEvents, broadcasts, fallback, budget, intentGate, stateDeltaSubscribers, now, lastOp,
                  observed, exercise, breakReminder >>

(***************************************************************************)
(* state_helpers.js: the storage fallback of updateStateSafely             *)
(***************************************************************************)
\* filteredPayload
FilterPayload(payload) ==
  [key \in DOMAIN payload \cap UI_ALLOWED_UPDATE_KEYS |-> payload[key]]

\* the delta the fallback writes, from what it read
DeltaFrom(currentState, filteredPayload) ==
  diffState(currentState, computeNextState(currentState, filteredPayload))
FallbackDelta(stored, filteredPayload) ==
  CHOOSE delta \in {DeltaFrom(currentState, filteredPayload) :
                      currentState \in {sanitizeStoredState(stored)}} : TRUE

\* where hydration stands when the fallback's write lands
HydrationPhase ==
  IF hasInitialized THEN "after"
  ELSE IF initPromise \in {"remove", "set"} THEN "during"
  ELSE "before"

\* sendMessageSafely gave null: chrome.storage.local.get(null) answers
FallbackRead(payload) ==
  /\ budget.fallbacks > 0
  /\ fallback.pc # "read"
  /\ ~IsEmptyObject(FilterPayload(payload))
  /\ budget' = [budget EXCEPT !.fallbacks = @ - 1]
  /\ fallback' = [pc |-> "read", input |-> [t |-> "object", v |-> payload],
                  payload |-> FilterPayload(payload), response |-> Null,
                  stored |-> storage, delta |-> EmptyObject, arrival |-> "none",
                  result |-> Undef]
  /\ UNCHANGED << state, hasInitialized, initPromise, storedState, initCallers,
                  hydrationReads, updateChain, nextId, applied, storage,
                  storageEvents, broadcasts, stateReads, gateActive, intentGate, stateDeltaSubscribers, now, lastOp,
                  observed, exercise, breakReminder >>

\* chrome.storage.local.set(delta) of the fallback
FallbackWrite ==
  /\ fallback.pc = "read"
  /\ \E delta \in {FallbackDelta(fallback.stored, fallback.payload)} :
        /\ fallback' = [fallback EXCEPT !.pc = "written", !.delta = delta,
                                        !.stored = EmptyObject,
                                        !.arrival = HydrationPhase,
                                        !.result = Bool(TRUE)]
        /\ storage' = StorageAfterSet(delta)
        /\ storageEvents' = EventsAfterSet(delta, "fallback")
  /\ UNCHANGED << state, hasInitialized, initPromise, storedState, initCallers,
                  hydrationReads, updateChain, nextId, applied, broadcasts,
                  budget, stateReads, gateActive, intentGate, stateDeltaSubscribers, now, lastOp,
                  observed, exercise, breakReminder >>

(***************************************************************************)
(* Another context writes UI-writable keys straight to storage             *)
(***************************************************************************)
\* the values it leaves: mistyped, non-canonical, removed (undefined), canonical
ExternalWrites ==
  { [isInFlow |-> Str(<<"y">>)],
    [intentGateEnabled |-> Undef],
    [currentTask |-> Str(TaskB)] }

RemovedKeys(items) == {key \in DOMAIN items : items[key] = Undef}
SetItems(items) == [key \in DOMAIN items \ RemovedKeys(items) |-> items[key]]

ExternalWrite(items) ==
  /\ budget.writes > 0
  /\ hasInitialized
  /\ budget' = [budget EXCEPT !.writes = @ - 1]
  /\ IF RemovedKeys(items) # {}
       THEN /\ storage' = StorageAfterRemove(RemovedKeys(items))
            /\ storageEvents' = EventsAfterRemove(RemovedKeys(items), "external")
       ELSE /\ storage' = StorageAfterSet(SetItems(items))
            /\ storageEvents' = EventsAfterSet(SetItems(items), "external")
  /\ UNCHANGED << state, hasInitialized, initPromise, storedState, initCallers,
                  hydrationReads, updateChain, nextId, applied, broadcasts,
                  fallback, stateReads, gateActive, intentGate, stateDeltaSubscribers, now, lastOp,
                  observed, exercise, breakReminder >>

(***************************************************************************)
(* Steps shared by the specifications                                      *)
(***************************************************************************)
ChainStep ==
  \/ \E i \in DOMAIN updateChain : RunTask(i)
  \/ \E i \in DOMAIN updateChain : PersistCallback(i)
  \/ DeliverStorageEvent

HydrationStep ==
  \/ HydrationGetCallback
  \/ HydrationRemoveCallback
  \/ HydrationSetCallback

\* payloads of the updateState message sent by the popup and options pages
UiPatches ==
  { [currentTask |-> Str(TaskB), isInFlow |-> Bool(TRUE),
     breakReminderEnabled |-> Bool(TRUE)],
    [isInFlow |-> Bool(FALSE)] }

\* payloads handed to updateStateSafely when the service worker does not answer
FallbackPayloads ==
  { [currentTask |-> Str(TaskB), isInFlow |-> Bool(TRUE),
     breakReminderEnabled |-> Bool(TRUE),
     reminderInterval |-> Num(MIN_INTERVAL_MS)] }

(***************************************************************************)
(* Spec: the service worker has just started; initBreakReminder has called *)
(* ensureInitialized(), the hydration read is in flight.                   *)
(***************************************************************************)
MaxUpdates == 2
MaxFallbacks == 1
MaxExternalWrites == 1

Init ==
  /\ state = getDefaultState
  /\ hasInitialized = FALSE
  /\ initPromise = "get"
  /\ storedState = EmptyObject
  /\ initCallers =
       [h \in {"initBreakReminder"} |->
          [joined |-> "first", waiting |-> TRUE, promise |-> 1]]
  /\ hydrationReads = 1
  /\ updateChain = <<>>
  /\ nextId = 1
  /\ applied = <<>>
  /\ storage \in ColdStores
  /\ storageEvents = <<>>
  /\ broadcasts = <<>>
  /\ fallback = NoFallback
  /\ budget = [updates |-> MaxUpdates, fallbacks |-> MaxFallbacks,
               writes |-> MaxExternalWrites]
  /\ stateReads = {}
  /\ gateActive = FALSE
  /\ intentGate = NoGate
  /\ stateDeltaSubscribers = SubscribersOf(initCallers)
  /\ now = StartAt + 1
  /\ lastOp = NoOp
  /\ exercise = NoExercise
  /\ breakReminder = NoBreakReminder
  /\ observed = NothingObserved

Next ==
  \/ \E updates \in UiPatches : UpdateStateCall(updates, "ui")
  \/ ChainStep
  \/ HydrationStep
  \/ \E payload \in FallbackPayloads : FallbackRead(payload)
  \/ FallbackWrite
  \/ \E items \in ExternalWrites : ExternalWrite(items)

Spec == Init /\ [][Next]_vars


(***************************************************************************)
(* Storage and memory at rest                                              *)
(***************************************************************************)
\* hydrated, nothing chained, no storage event or fallback write on its way
Quiescent ==
  /\ hasInitialized
  /\ initPromise = "null"
  /\ updateChain = <<>>
  /\ storageEvents = <<>>
  /\ fallback.pc # "read"

\* the stored value of every state key is the in-memory value
Converged ==
  \A key \in STATE_KEYS : key \in DOMAIN storage /\ storage[key] = state[key]

NoUpdates == budget.updates = MaxUpdates
NoFallbacks == budget.fallbacks = MaxFallbacks
NoWrites == budget.writes = MaxExternalWrites

\* C6: after the runtime is hydrated and another context wrote arbitrary
\* values (canonical, non-canonical, mistyped or removed) for UI-writable
\* keys, once the chain is idle and no change event is pending the stored
\* values equal the in-memory values for every state key, and the
\* cross-field invariants hold.
C6_ExternalWritesConverge ==
  (Quiescent /\ NoUpdates /\ NoFallbacks /\ ~NoWrites) =>
    /\ Converged
    /\ InFlow(state) => HasTask(state)
    /\ ~InFlow(state) => TimerCleared(state)

\* C7: a storage-change event caused by the runtime's own persistence (an
\* updateState write or a reconcile write-back) never enqueues a reconcile
\* mutation, whatever was queued and applied in between.
C7_OwnWritesNotReconciled ==
  \A i \in DOMAIN updateChain :
    updateChain[i].kind = "reconcile" =>
      updateChain[i].origin \notin {"updateState", "reconcile"}

\* C8: a fallback write of updateStateSafely is reflected in the in-memory
\* state whether it lands before hydration read storage, during hydration
\* (after the read, before hydration is marked complete) or after it.
C8_FallbackWriteReflected ==
  (Quiescent /\ NoUpdates /\ NoWrites /\ fallback.pc = "written") =>
    \A key \in DOMAIN fallback.delta : state[key] = fallback.delta[key]

(***************************************************************************)
(* What an in-process subscriber has been told                             *)
(***************************************************************************)
\* the snapshot a subscriber holds after the first n deltas it received
RECURSIVE Replayed(_)
Replayed(n) ==
  IF n = 0 THEN observed.hydrated
  ELSE Merge(Replayed(n - 1), broadcasts[n].delta)

HydratedStore(store) ==
  Merge([key \in {k \in DOMAIN store : isAllowedStorageKey(k)} |-> store[key]],
        sanitizeStoredState(store))

HydratedFrom(store) ==
  /\ state = sanitizeStoredState(store)
  /\ hasInitialized = TRUE
  /\ initPromise = "null"
  /\ storedState = EmptyObject
  /\ initCallers =
       [h \in {"initBreakReminder"} |->
          [joined |-> "first", waiting |-> FALSE, promise |-> 1]]
  /\ hydrationReads = 1
  /\ updateChain = <<>>
  /\ nextId = 1
  /\ applied = <<>>
  /\ storage = HydratedStore(store)
  /\ storageEvents = <<>>
  /\ broadcasts = <<>>
  /\ fallback = NoFallback
  /\ stateReads = {[handler |-> "initBreakReminder", hydrated |-> TRUE]}
  /\ gateActive = FALSE
  /\ now = StartAt + 1
  /\ lastOp = NoOp
  /\ exercise = NoExercise
  /\ breakReminder = NoBreakReminder
  /\ observed = [NothingObserved EXCEPT !.hydrated = sanitizeStoredState(store),
                                        !.set = DeltaToStore(store),
                                        !.left = HydratedStore(store)]

(***************************************************************************)
(* SpecAB: on a hydrated runtime updateState({currentTask: 'A'}) is called *)
(* and, before it resolved, updateState({currentTask: 'B'}).               *)
(***************************************************************************)
TaskC == <<"C">>

\* what storage held when the runtime hydrated: a task other than A and B
StoresAB ==
  { Merge(UserSites, [currentTask |-> Str(TaskC)]),
    Merge(UserSites, [currentTask |-> Str(TaskC), isInFlow |-> Bool(TRUE)]),
    Merge(UserSites, [intentGateEnabled |-> Bool(FALSE)]),
    Merge(UserSites, [currentTask |-> Str(TaskC), hasSeenOnboarding |-> Bool(TRUE)]),
    Merge(RunningSession, Merge(UserSites, [currentTask |-> Str(TaskC)])) }

InitAB ==
  /\ \E store \in StoresAB : HydratedFrom(store)
  /\ intentGate = NoGate
  /\ stateDeltaSubscribers = SubscribersOf(initCallers)
  /\ budget = [updates |-> 2, fallbacks |-> 0, writes |-> 0]

\* the first call carries A; the second carries B and is made while the
\* promise of the first is still pending
CallAB ==
  IF budget.updates = 2
    THEN UpdateStateCall([currentTask |-> Str(TaskA)], "ui")
    ELSE /\ \E i \in DOMAIN updateChain : updateChain[i].id = 1
         /\ UpdateStateCall([currentTask |-> Str(TaskB)], "ui")

NextAB == CallAB \/ ChainStep

SpecAB == InitAB /\ [][NextAB]_vars

\* C1: when both calls resolved and no storage event is pending, the
\* in-memory and the persisted currentTask are 'B' and exactly two deltas
\* were broadcast, in every interleaving of the persistence completions
\* and the storage-change events.
C1_LastCallWins ==
  (Quiescent /\ budget.updates = 0) =>
    /\ state.currentTask = Str(TaskB)
    /\ storage.currentTask = Str(TaskB)
    /\ Len(broadcasts) = 2


(***************************************************************************)
(* SpecTwice: on a hydrated runtime updateState is called with a patch and *)
(* called again with the same patch before the first call resolved.        *)
(***************************************************************************)
TwicePatches ==
  UiPatches \cup { [currentTask |-> Str(<<" ", "A", " ">>), isInFlow |-> Str(<<"y">>)] }

CallTwice ==
  IF budget.updates = 2
    THEN \E updates \in TwicePatches : UpdateStateCall(updates, "ui")
    ELSE \E i \in DOMAIN updateChain :
           /\ updateChain[i].id = 1
           /\ UpdateStateCall(updateChain[i].updates, "ui")

NextTwice == CallTwice \/ ChainStep

SpecTwice == InitAB /\ [][NextTwice]_vars

\* the broadcasts made by the two calls of the patch
BroadcastsOfCalls == {n \in DOMAIN broadcasts : broadcasts[n].id \in {1, 2}}

\* C12: a step in which an updateState task finds that its patch leaves the
\* state as it is resolves the promise with true, writes nothing to storage,
\* queues no storage event, notifies no subscriber and broadcasts nothing;
\* and once both calls of the same patch resolved, they resolved true and
\* made exactly one broadcast between them if the patch changed the state
\* (none if it did not).
C12_EmptyDiffIsSilent ==
  [][ /\ \A i \in DOMAIN updateChain :
           ( /\ updateChain[i].kind = "updateState"
             /\ applied' = Append(applied, updateChain[i].id)
             /\ computeNextState(state, updateChain[i].updates) = state )
           => /\ [id |-> updateChain[i].id, result |-> TRUE] \in observed'.resolved
              /\ storage' = storage
              /\ storageEvents' = storageEvents
              /\ broadcasts' = broadcasts
              /\ updateChain' = RemoveAt(updateChain, i)
              /\ state' = state
      /\ (updateChain' = <<>> /\ budget'.updates = 0)
           => /\ \A call \in {1, 2} : [id |-> call, result |-> TRUE] \in observed'.resolved
              /\ Cardinality({n \in DOMAIN broadcasts' : broadcasts'[n].id \in {1, 2}})
                   = IF state' = observed'.hydrated THEN 0 ELSE 1 ]_vars

\* C12 witness: both calls of a patch that changed the state have resolved
\* true, the first one broadcast its delta and the second one found an empty
\* diff after the break reminder's own update had been queued behind it.
C12_Witness ==
  /\ budget.updates = 0
  /\ updateChain = <<>>
  /\ storageEvents = <<>>
  /\ {1, 2} \subseteq {r.id : r \in {x \in observed.resolved : x.result}}
  /\ {broadcasts[n].id : n \in BroadcastsOfCalls} = {1}
  /\ \E n \in DOMAIN broadcasts : broadcasts[n].id = 3
  /\ state # observed.hydrated


(***************************************************************************)
(* SpecChain: a hydrated runtime takes updateState calls from the UI and   *)
(* from a subsystem while another context writes to storage.               *)
(***************************************************************************)
MaxChainUpdates == 2
MaxChainWrites == 1

\* the update startBreakReminder makes once the session runs
TimerPatch ==
  [reminderStartTime |-> Num(StartAt), reminderInterval |-> Num(MIN_INTERVAL_MS),
   reminderExpectedEndTime |-> Num(EndAt)]

StoresChain == { Merge(RunningSession, UserSites) }

InitChain ==
  /\ \E store \in StoresChain : HydratedFrom(store)
  /\ intentGate = NoGate
  /\ stateDeltaSubscribers = SubscribersOf(initCallers)
  /\ budget = [updates |-> MaxChainUpdates, fallbacks |-> 0,
               writes |-> MaxChainWrites]

NextChain ==
  \/ \E updates \in UiPatches : UpdateStateCall(updates, "ui")
  \/ UpdateStateCall(TimerPatch, "startBreakReminder")
  \/ \E items \in ExternalWrites : ExternalWrite(items)
  \/ ChainStep

SpecChain == InitChain /\ [][NextChain]_vars

\* the mutations between computing their next state and the end of their
\* persistence
InProgress == {i \in DOMAIN updateChain : updateChain[i].pc = "persist"}

\* C2: at any time at most one mutation (updateState or reconcile) is
\* between computing its next state and finishing its persistence, it is
\* the oldest one chained, and the mutations take effect in exactly the
\* order in which they were appended to the chain.
C2_ChainSerialized ==
  /\ Cardinality(InProgress) <= 1
  /\ InProgress \subseteq {1}
  /\ \A j, k \in DOMAIN applied : j < k => applied[j] < applied[k]

\* C2 witness: an updateState is persisting while a reconcile and another
\* mutation wait behind it, after an earlier mutation took effect.
C2_Witness ==
  /\ Len(updateChain) >= 3
  /\ updateChain[1].pc = "persist"
  /\ \E i \in DOMAIN updateChain : updateChain[i].kind = "reconcile"
  /\ Len(applied) >= 2


(***************************************************************************)
(* SpecFault: SpecChain on a profile whose storage writes can fail.        *)
(***************************************************************************)
NextFault ==
  \/ NextChain
  \/ \E i \in DOMAIN updateChain : ApplyTaskSetFails(i)

SpecFault == InitChain /\ [][NextFault]_vars

\* C13: the promise of a mutation whose persistence step failed resolves
\* false, and the chain is not left stuck by it: whenever the chain is idle
\* every mutation that was ever chained has run and settled.
C13_FailedPersistResolvesFalse ==
  /\ \A r \in observed.resolved : r.id \in observed.failed => ~r.result
  /\ updateChain = <<>> =>
       /\ {r.id : r \in observed.resolved} = 1 .. (nextId - 1)
       /\ Range(applied) = 1 .. (nextId - 1)


(***************************************************************************)
(* SpecWake: the service worker module was just evaluated; events wake     *)
(* handlers in any order while hydration runs.                             *)
(***************************************************************************)
MaxWakeUpdates == 1

InitWake ==
  /\ ModuleLoaded
  /\ storage \in ColdStores
  /\ budget = [updates |-> MaxWakeUpdates, fallbacks |-> 0, writes |-> 0]

NextWake ==
  \/ \E h \in Handlers : HandlerCall(h)
  \/ triggerExerciseGateNow
  \/ \E updates \in UiPatches : UpdateStateCall(updates, "ui")
  \/ ChainStep
  \/ HydrationStep

SpecWake == InitWake /\ [][NextWake]_vars

\* C9: no handler reachable from an external event (message, alarm, an
\* exported trigger function, ...) reads or mutates the in-memory state
\* before hydration has completed; an update issued before hydration is
\* applied on the hydrated state.
C9_NoAccessBeforeHydration ==
  /\ \A read \in stateReads : read.hydrated
  /\ applied # <<>> => hasInitialized

\* C10: ensureInitialized reads storage exactly once per service worker
\* lifetime: the first caller starts the read, callers arriving while it is
\* in flight get the same promise and resume with the first caller, and
\* calls after completion start no read.
C10_SingleHydrationRead ==
  /\ hydrationReads <= 1
  /\ (hasInitialized \/ initPromise # "null") => hydrationReads = 1
  /\ \A h \in DOMAIN initCallers :
       /\ initCallers[h].joined \in {"first", "inflight"} => initCallers[h].promise = 1
       /\ initCallers[h].joined = "after" => initCallers[h].promise = 0
       /\ initCallers[h].waiting => ~hasInitialized
  /\ Cardinality({h \in DOMAIN initCallers : initCallers[h].joined = "first"}) <= 1

\* C10 witness: hydration completed after one read; one handler started it,
\* one joined it in flight and one called after completion.
C10_Witness ==
  /\ hasInitialized
  /\ hydrationReads = 1
  /\ \A kind \in {"first", "inflight", "after"} :
       \E h \in DOMAIN initCallers : initCallers[h].joined = kind


(***************************************************************************)
(* SpecSession: Deep Work sessions. The service worker has just started    *)
(* (initBreakReminder subscribed and awaits hydration); sessions are       *)
(* started and stopped from the popup and the omnibox while the clock      *)
(* moves on and the break reminder follows the state deltas.               *)
(***************************************************************************)
MaxSessionUpdates == 2
MaxTicks == 1

\* the clock moves on by one minute
TickMs == MIN_INTERVAL_MS

Tick ==
  /\ now < StartAt + 1 + MaxTicks * TickMs
  /\ now' = now + TickMs
  /\ UNCHANGED << state, hasInitialized, initPromise, storedState, initCallers,
                  hydrationReads, updateChain, nextId, applied, storage,
                  storageEvents, broadcasts, fallback, budget, stateReads,
                  gateActive, intentGate, stateDeltaSubscribers, lastOp,
                  observed, exercise, breakReminder >>

MIN_DEEPWORK_MINUTES == 1

\* omnibox: startDeepWork({minutes: 1, task: 'B'})
startDeepWork ==
  UpdateStateCall(
    [currentTask |-> Str(TaskB), isInFlow |-> Bool(TRUE),
     breakReminderEnabled |-> Bool(TRUE),
     reminderInterval |-> Num(MIN_DEEPWORK_MINUTES * 60 * 1000),
     reminderStartTime |-> Null, reminderExpectedEndTime |-> Null],
    "startDeepWork")

\* what chrome.storage.local holds when the service worker wakes: no
\* session, or a session whose fields the popup's fallback wrote (no timer
\* yet) next to a stale key
SessionStores ==
  { UserSites,
    Merge(UserSites,
          [currentTask |-> Str(TaskA), isInFlow |-> Bool(TRUE),
           breakReminderEnabled |-> Bool(TRUE), legacyKey |-> Bool(TRUE)]) }

InitSession ==
  /\ state = getDefaultState
  /\ hasInitialized = FALSE
  /\ initPromise = "get"
  /\ storedState = EmptyObject
  /\ initCallers =
       [h \in {"initBreakReminder"} |->
          [joined |-> "first", waiting |-> TRUE, promise |-> 1]]
  /\ hydrationReads = 1
  /\ updateChain = <<>>
  /\ nextId = 1
  /\ applied = <<>>
  /\ storage \in SessionStores
  /\ storageEvents = <<>>
  /\ broadcasts = <<>>
  /\ fallback = NoFallback
  /\ budget = [updates |-> MaxSessionUpdates, fallbacks |-> 0, writes |-> 0]
  /\ stateReads = {}
  /\ gateActive = FALSE
  /\ intentGate = NoGate
  /\ stateDeltaSubscribers = SubscribersOf(initCallers)
  /\ now = StartAt + 1
  /\ lastOp = NoOp
  /\ exercise = NoExercise
  /\ breakReminder = NoBreakReminder
  /\ observed = NothingObserved

NextSession ==
  \/ \E updates \in UiPatches : UpdateStateCall(updates, "ui")
  \/ startDeepWork
  \/ Tick
  \/ ChainStep
  \/ HydrationStep

SpecSession == InitSession /\ [][NextSession]_vars

\* the break reminder has seen every change: hydrated, nothing chained
BreakReminderSynced == hasInitialized /\ Subscribed /\ updateChain = <<>>

\* C5 as stated: in every reachable in-memory state, isInFlow = true implies
\* that reminderStartTime, reminderInterval and reminderExpectedEndTime are
\* all non-null.
C5_InFlowTimerSet == InFlow(state) => TimerSet(state)

\* C5 amended: in every reachable in-memory state, isInFlow = true together
\* with breakReminderEnabled = true implies that reminderStartTime,
\* reminderInterval and reminderExpectedEndTime are all non-null once the
\* break reminder has processed the change (nothing chained on a hydrated
\* worker). Until then, and while breakReminderEnabled is false, a state in
\* flow may have null timer fields.
C5_FlowTimerClosure ==
  (BreakReminderSynced /\ InFlow(state) /\ Truthy(state.breakReminderEnabled))
    => TimerSet(state)

\* startDeepWork left a session without start and end time, and the break
\* reminder's own update has filled them in
C5_Witness ==
  /\ BreakReminderSynced
  /\ InFlow(state) /\ TimerSet(state)
  /\ state.reminderStartTime = Num(now)
  /\ \E i, j \in DOMAIN broadcasts :
       /\ i < j
       /\ "reminderStartTime" \in DOMAIN broadcasts[j].delta
       /\ "isInFlow" \in DOMAIN broadcasts[i].delta
       /\ broadcasts[i].delta.isInFlow = Bool(TRUE)


(***************************************************************************)
(* setupStateListeners: the getState and updateState messages              *)
(***************************************************************************)
\* chrome.runtime.id, and `chrome-extension://${runtimeId}/`; URLs are
\* sequences of their parts
RuntimeId == "maizone"
ExtensionOrigin == <<"chrome-extension://", RuntimeId, "/">>

isTrustedExtensionSender_ById(sender) == sender.id = RuntimeId
isTrustedExtensionSender(sender) ==
  /\ sender.id = RuntimeId
  /\ \E senderUrl \in {IF IsString(sender.url) THEN sender.url.v ELSE <<>>} :
       senderUrl # <<>> /\ StartsWith(senderUrl, ExtensionOrigin)

\* a JS object with the own properties `o`; the name of a state key
Obj(o) == [t |-> "object", v |-> o]
KeyName(k) == [t |-> "string", v |-> k]

\* filterPayloadKeys(payload, allowedKeys); Object.keys of an array are its
\* indices, which no allowlist holds
filterPayloadKeys_KeepsAll(payload, allowedKeys) ==
  IF payload.t = "object" THEN payload.v ELSE EmptyObject
filterPayloadKeys(payload, allowedKeys) ==
  IF payload.t = "object"
    THEN [key \in DOMAIN payload.v \cap allowedKeys |-> payload.v[key]]
    ELSE EmptyObject

\* the response of the getState handler, computed on the hydrated state `s`
getStateResponse(message, sender, s) ==
  LET isTrusted == isTrustedExtensionSender(sender)
      allowedKeys == IF isTrusted THEN STATE_KEYS ELSE UNTRUSTED_STATE_KEYS
  IN IF IsArray(message.keys)
       THEN [k \in {x.v : x \in {y \in Range(message.keys.v) :
                                    IsString(y) /\ y.v \in allowedKeys}} |-> s[k]]
     ELSE IF IsString(message.key)
       THEN IF message.key.v \notin allowedKeys THEN EmptyObject
            ELSE [k \in {message.key.v} |-> s[k]]
     ELSE IF isTrusted THEN s
     ELSE [k \in allowedKeys |-> s[k]]

Replied(action, sender, message, response) ==
  [observed EXCEPT !.reply = [action |-> action, sender |-> sender,
                              message |-> message, status |-> "replied",
                              reply |-> response, id |-> 0]]

\* the getState message on a hydrated runtime: await ensureInitialized()
\* resolves at once and the response is built from the state
GetStateMessage(sender, message) ==
  /\ hasInitialized
  /\ ~MicrotasksPending
  /\ observed' = Replied("getState", sender, message,
                         getStateResponse(message, sender, state))
  /\ UNCHANGED << state, hasInitialized, initPromise, storedState, initCallers,
                  hydrationReads, updateChain, nextId, applied, storage,
                  storageEvents, broadcasts, fallback, budget, stateReads,
                  gateActive, intentGate, stateDeltaSubscribers, now, lastOp, exercise, breakReminder >>

Refused(error) == [success |-> FALSE, error |-> error]

\* the updateState message on a hydrated runtime, up to the response or to
\* the call of updateState(filteredPayload), whose result is the response
UpdateStateMessage(sender, message) ==
  /\ hasInitialized
  /\ ~MicrotasksPending
  /\ \E filteredPayload \in {filterPayloadKeys(message.payload, UI_ALLOWED_UPDATE_KEYS)} :
       IF message.payload.t \notin {"object", "array"}
         THEN /\ observed' = Replied("updateState", sender, message, Refused("Invalid payload"))
              /\ UNCHANGED << updateChain, nextId, budget >>
       ELSE IF ~isTrustedExtensionSender(sender)
         THEN /\ observed' = Replied("updateState", sender, message, Refused("Forbidden"))
              /\ UNCHANGED << updateChain, nextId, budget >>
       ELSE IF IsEmptyObject(filteredPayload)
         THEN /\ observed' = Replied("updateState", sender, message, Refused("No valid keys"))
              /\ UNCHANGED << updateChain, nextId, budget >>
       ELSE /\ budget.updates > 0
            /\ budget' = [budget EXCEPT !.updates = @ - 1]
            /\ updateChain' =
                 Append(updateChain, ChainTask("updateState", "message", filteredPayload))
            /\ nextId' = nextId + 1
            /\ observed' = [observed EXCEPT !.reply =
                              [action |-> "updateState", sender |-> sender,
                               message |-> message, status |-> "pending",
                               reply |-> EmptyObject, id |-> nextId]]
  /\ UNCHANGED << state, hasInitialized, initPromise, storedState, initCallers,
                  hydrationReads, applied, storage, storageEvents, broadcasts,
                  fallback, stateReads, gateActive, intentGate, stateDeltaSubscribers, now, lastOp, exercise, breakReminder >>

(***************************************************************************)
(* SpecMsg: a hydrated runtime receives getState and updateState messages  *)
(* from the popup and from content scripts.                                *)
(***************************************************************************)
MaxMessages == 2

\* page: where the sender runs; id and url: what chrome reports about it
Senders ==
  { [page |-> "popup", id |-> RuntimeId,
     url |-> Str(ExtensionOrigin \o <<"popup.html">>)],
    [page |-> "content", id |-> RuntimeId,
     url |-> Str(<<"https://", "x.com", "/">>)],
    [page |-> "content", id |-> RuntimeId,
     url |-> Str(<<"https://", "x.com", "/?">> \o ExtensionOrigin)],
    [page |-> "content", id |-> RuntimeId, url |-> Undef] }

\* the request shapes of getState: no keys, a single key, a keys array
GetStateMessages ==
  { [key |-> Undef, keys |-> Undef],
    [key |-> KeyName("isInFlow"), keys |-> Undef],
    [key |-> KeyName("currentTask"), keys |-> Undef],
    [key |-> Undef, keys |-> KeyName("distractingSites")],
    [key |-> KeyName("currentTask"),
     keys |-> Arr(<<KeyName("currentTask"), KeyName("isInFlow"), Num(1),
                    KeyName("deepWorkBlockedSites")>>)] }

\* payloads of updateState: a session start carrying timer fields, timer and
\* statistics fields only, a session stop, null, an array
UpdateStateMessages ==
  { [payload |-> Obj([currentTask |-> Str(TaskB), isInFlow |-> Bool(TRUE),
                      breakReminderEnabled |-> Bool(TRUE),
                      reminderStartTime |-> Num(7),
                      reminderInterval |-> Num(MAX_INTERVAL_MS),
                      reminderExpectedEndTime |-> Num(8)])],
    [payload |-> Obj([reminderStartTime |-> Num(7), exerciseStatsPushUps |-> Num(9)])],
    [payload |-> Obj([isInFlow |-> Bool(FALSE)])],
    [payload |-> Null],
    [payload |-> Arr(<<Str(TaskB)>>)] }

StoresMsg ==
  { Merge(UserSites, [currentTask |-> Str(TaskC)]),
    Merge(RunningSession, UserSites) }

InitMsg ==
  /\ \E store \in StoresMsg : HydratedFrom(store)
  /\ intentGate = NoGate
  /\ stateDeltaSubscribers = SubscribersOf(initCallers)
  /\ budget = [updates |-> MaxMessages, fallbacks |-> 0, writes |-> 0]

NextMsg ==
  \/ \E sender \in Senders, message \in GetStateMessages :
       GetStateMessage(sender, message)
  \/ \E sender \in Senders, message \in UpdateStateMessages :
       UpdateStateMessage(sender, message)
  \/ ChainStep

SpecMsg == InitMsg /\ [][NextMsg]_vars

\* the sender is a page of the extension (popup or options)
FromExtensionPage(sender) == sender.page \in {"popup", "options"}

\* C15: the response to a getState message from a sender that is not an
\* extension page holds no field other than isInFlow, whether the request
\* names no keys, a single key or a keys array; currentTask and the two
\* site lists are never in it.
C15_UntrustedSeesOnlyIsInFlow ==
  (observed.reply.action = "getState" /\ ~FromExtensionPage(observed.reply.sender)) =>
    /\ DOMAIN observed.reply.reply \subseteq {"isInFlow"}
    /\ DOMAIN observed.reply.reply \cap
         {"currentTask", "distractingSites", "deepWorkBlockedSites"} = {}

\* C15 witness: during a session with a task and site lists, a content
\* script whose URL carries the extension origin asked for currentTask, the
\* site lists and isInFlow in a keys array and got isInFlow alone.
C15_Witness ==
  /\ observed.reply.action = "getState"
  /\ observed.reply.sender.page = "content"
  /\ IsString(observed.reply.sender.url)
  /\ IsArray(observed.reply.message.keys)
  /\ observed.reply.reply = [isInFlow |-> Bool(TRUE)]
  /\ state.currentTask = Str(TaskB)
  /\ state.distractingSites.v # <<>>

\* the payload has own properties to apply: typeof payload === 'object'
IsObjectPayload(message) == message.payload.t \in {"object", "array"}

\* the own properties of the payload that UI_ALLOWED_UPDATE_KEYS holds
AllowlistedPart(message) ==
  IF message.payload.t = "object"
    THEN [key \in {k \in DOMAIN message.payload.v : k \in UI_ALLOWED_UPDATE_KEYS} |->
            message.payload.v[key]]
    ELSE EmptyObject

\* what a step owes to the updateState message it answers or takes up;
\* `whoever` tells whether 'Forbidden' is owed to every sender that is not
\* an extension page or only to those whose payload is an object
UpdateMessageContract(whoever) ==
  /\ (observed'.reply # observed.reply /\ observed'.reply.action = "updateState") =>
       \E r \in {observed'.reply} :
         /\ ((whoever \/ IsObjectPayload(r.message)) /\ ~FromExtensionPage(r.sender))
              => r.status = "replied" /\ r.reply = [success |-> FALSE, error |-> "Forbidden"]
         /\ ~IsObjectPayload(r.message)
              => r.status = "replied" /\ r.reply.success = FALSE
                 /\ (~whoever => r.reply.error = "Invalid payload")
         /\ ( /\ FromExtensionPage(r.sender)
              /\ IsObjectPayload(r.message)
              /\ IsEmptyObject(AllowlistedPart(r.message)) )
              => r.status = "replied"
                 /\ r.reply = [success |-> FALSE, error |-> "No valid keys"]
         /\ r.status = "replied"
              => /\ r.reply.success = FALSE
                 /\ UNCHANGED << state, storage, storageEvents, broadcasts, updateChain >>
         /\ r.status = "pending"
              => /\ FromExtensionPage(r.sender)
                 /\ ~IsEmptyObject(AllowlistedPart(r.message))
                 /\ updateChain' = Append(updateChain, updateChain'[Len(updateChain')])
                 /\ updateChain'[Len(updateChain')].id = r.id
                 /\ updateChain'[Len(updateChain')].updates = AllowlistedPart(r.message)
                 /\ UNCHANGED << state, storage, storageEvents, broadcasts >>
  /\ (observed.reply.status = "pending" /\ applied' = Append(applied, observed.reply.id)) =>
       \E payload \in {observed.reply.message.payload.v} :
         \A key \in DOMAIN payload :
           IF key \in UI_ALLOWED_UPDATE_KEYS
             THEN state'[key] = payload[key]
             ELSE state'[key] # payload[key]

\* C16 as stated: an untrusted sender gets 'Forbidden' whatever it sent.
C16_UntrustedForbidden == [][UpdateMessageContract(TRUE)]_vars

\* C16: through the updateState message a payload value reaches a state
\* field only from an extension page and under a key of
\* UI_ALLOWED_UPDATE_KEYS. A payload that is not an object is answered
\* 'Invalid payload' whoever sent it; an object payload from another sender
\* is answered 'Forbidden'; one from an extension page without an
\* allowlisted key is answered 'No valid keys'; each refusal leaves state,
\* storage, storage events, broadcasts and the chain as they were. Of a
\* mixed payload the allowlisted part alone is chained, and the mutation
\* gives the allowlisted fields the payload's values and no other field its
\* payload value.
C16_AllowlistedFromExtensionPage == [][UpdateMessageContract(FALSE)]_vars

\* C16 witness: the popup's session start carrying timer fields was applied:
\* the task and the flags are the payload's, the timer fields are the break
\* reminder's own and not the 7 and 8 of the payload, and a content script
\* was then refused.
C16_Witness ==
  /\ observed.reply.action = "updateState"
  /\ observed.reply.status = "replied"
  /\ observed.reply.reply = [success |-> FALSE, error |-> "Forbidden"]
  /\ \E r \in observed.resolved : r.result
  /\ state.currentTask = Str(TaskB)
  /\ state.isInFlow = Bool(TRUE)
  /\ IsFiniteNumber(state.reminderStartTime)
  /\ state.reminderStartTime # Num(7)
  /\ observed.hydrated.currentTask = Str(TaskC)


(***************************************************************************)
(* The badge, the alarms and the tickers of the break reminder             *)
(***************************************************************************)
\* `${minutes}:${seconds}`, both padded to two digits, as
\* <<minutes, seconds>>: '00:00' is <<0, 0>>; the empty badge text is <<>>
formatRemaining(remainingMs) ==
  << ((IF remainingMs > 0 THEN remainingMs ELSE 0) \div 1000) \div 60,
     ((IF remainingMs > 0 THEN remainingMs ELSE 0) \div 1000) % 60 >>

\* expectedEndTime as the tickers and the badge compute it from the record
\* `s`: reminderExpectedEndTime, else reminderStartTime + reminderInterval,
\* else null
expectedEndTime(s) ==
  IF IsFiniteNumber(Get(s, "reminderExpectedEndTime"))
    THEN s.reminderExpectedEndTime
  ELSE IF /\ IsFiniteNumber(Get(s, "reminderStartTime"))
          /\ IsFiniteNumber(Get(s, "reminderInterval"))
    THEN Num(s.reminderStartTime.v + s.reminderInterval.v)
  ELSE Null

\* the text updateBadgeWithTimerDisplay() sets on the state `s`
updateBadgeWithTimerDisplay(s) ==
  IF ~Truthy(s.isInFlow) \/ ~Truthy(s.breakReminderEnabled) THEN <<>>
  ELSE IF expectedEndTime(s) = Null THEN <<>>
  ELSE IF expectedEndTime(s).v - now <= 0 THEN <<0, 0>>
  ELSE formatRemaining(expectedEndTime(s).v - now)

\* chrome.action.setBadgeText({ text })
SetBadgeText(text) == [observed EXCEPT !.badge = text]

BREAK_REMINDER_END_ALARM == "maizone_breakReminderEnd"
BREAK_REMINDER_BADGE_ALARM == "maizone_breakReminderBadgeTick"

\* the calls of handleBreakReminderEnd whose mutation is still chained; the
\* end alarm is one-shot and the tickers tick once a second, so few
\* detections fall into the time one storage write takes
MaxPendingEnds == 2
PendingEnds ==
  Cardinality({i \in DOMAIN updateChain :
                 updateChain[i].origin = "handleBreakReminderEnd"})

\* handleAlarm(alarm) on a hydrated runtime: the badge alarm redraws the
\* badge; the end alarm runs handleBreakReminderEnd(), which chains the end
\* of the cycle or, when the alarm came early, redraws the badge
handleAlarm(name) ==
  /\ hasInitialized
  /\ ~MicrotasksPending
  /\ IF name = BREAK_REMINDER_BADGE_ALARM
       THEN /\ observed' = SetBadgeText(updateBadgeWithTimerDisplay(state))
            /\ UNCHANGED << updateChain, nextId >>
       ELSE \E calls \in {handleBreakReminderEnd(state)} :
              /\ calls # <<>> => PendingEnds < MaxPendingEnds
              /\ updateChain' = AppendCalls(updateChain, calls)
              /\ nextId' = nextId + Len(calls)
              /\ observed' = IF SessionValid(state) /\ calls = <<>>
                               THEN SetBadgeText(updateBadgeWithTimerDisplay(state))
                               ELSE observed
  /\ UNCHANGED << state, hasInitialized, initPromise, storedState, initCallers,
                  hydrationReads, applied, storage, storageEvents, broadcasts,
                  fallback, budget, stateReads, gateActive, intentGate, stateDeltaSubscribers, now, lastOp, exercise, breakReminder >>

\* tickOperaBadge() on a hydrated runtime; the service-worker ticker and
\* the content-script tick message run the same steps
tickOperaBadge ==
  /\ hasInitialized
  /\ ~MicrotasksPending
  /\ IF ~SessionValid(state)
       THEN /\ observed' = SetBadgeText(<<>>)
            /\ UNCHANGED << updateChain, nextId >>
     ELSE IF expectedEndTime(state) # Null /\ now >= expectedEndTime(state).v
       THEN \E calls \in {handleBreakReminderEnd(state)} :
              /\ calls # <<>> => PendingEnds < MaxPendingEnds
              /\ updateChain' = AppendCalls(updateChain, calls)
              /\ nextId' = nextId + Len(calls)
              /\ UNCHANGED observed
     ELSE /\ observed' = SetBadgeText(updateBadgeWithTimerDisplay(state))
          /\ UNCHANGED << updateChain, nextId >>
  /\ UNCHANGED << state, hasInitialized, initPromise, storedState, initCallers,
                  hydrationReads, applied, storage, storageEvents, broadcasts,
                  fallback, budget, stateReads, gateActive, intentGate, stateDeltaSubscribers, now, lastOp, exercise, breakReminder >>

\* readTimerStateFromStorage() of the offscreen document: the session is
\* active in what chrome.storage.local holds
ActiveInStorage ==
  /\ Truthy(Get(storage, "isInFlow"))
  /\ Truthy(Get(storage, "breakReminderEnabled"))
  /\ IsString(Get(storage, "currentTask"))
  /\ Trim(storage.currentTask.v) # <<>>
  /\ expectedEndTime(storage) # Null

\* tickBadge() of the offscreen document
tickBadge ==
  /\ ActiveInStorage
  /\ observed' =
       SetBadgeText(IF expectedEndTime(storage).v - now <= 0
                      THEN <<0, 0>>
                      ELSE formatRemaining(expectedEndTime(storage).v - now))
  /\ UNCHANGED << state, hasInitialized, initPromise, storedState, initCallers,
                  hydrationReads, updateChain, nextId, applied, storage,
                  storageEvents, broadcasts, fallback, budget, stateReads,
                  gateActive, intentGate, stateDeltaSubscribers, now, lastOp, exercise, breakReminder >>

(***************************************************************************)
(* SpecTimer: a hydrated runtime with a running session; the clock reaches *)
(* the expected end while alarms fire, tickers tick and the UI updates.    *)
(***************************************************************************)
MaxTimerUpdates == 1
MaxTimerWrites == 1

\* the popup starts a session (fallback of resetBreakReminder) or stops it
TimerUiPatches ==
  { [currentTask |-> Str(TaskB), isInFlow |-> Bool(TRUE),
     breakReminderEnabled |-> Bool(TRUE)],
    EndCycle }

\* another context stores breakReminderEnabled: false alone
TimerExternalWrites == { [breakReminderEnabled |-> Bool(FALSE)] }

InitTimer ==
  /\ \E store \in StoresChain : HydratedFrom(store)
  /\ intentGate = NoGate
  /\ stateDeltaSubscribers = SubscribersOf(initCallers)
  /\ budget = [updates |-> MaxTimerUpdates, fallbacks |-> 0,
               writes |-> MaxTimerWrites]

\* the end alarm or a tick of a liveness probe
EndAlarmOrProbe == handleAlarm(BREAK_REMINDER_END_ALARM) \/ tickOperaBadge

NextTimer ==
  \/ Tick
  \/ \E updates \in TimerUiPatches : UpdateStateCall(updates, "ui")
  \/ \E items \in TimerExternalWrites : ExternalWrite(items)
  \/ handleAlarm(BREAK_REMINDER_BADGE_ALARM)
  \/ EndAlarmOrProbe
  \/ tickBadge
  \/ ChainStep

SpecTimer == InitTimer /\ [][NextTimer]_vars

\* the three session fields are cleared
SessionCleared(s) ==
  /\ s.isInFlow = Bool(FALSE)
  /\ s.currentTask = Str(<<>>)
  /\ s.breakReminderEnabled = Bool(FALSE)

\* C17: the step in which handleBreakReminderEnd raises the notification
\* leaves the in-memory state with isInFlow = false, currentTask = '' and
\* breakReminderEnabled = false, and the mutation it chained has run by
\* then; that mutation clears the three fields in one step, whatever state
\* it finds.
C17_ClearedBeforeNotification ==
  [][ /\ \A id \in observed'.notified \ observed.notified :
           /\ SessionCleared(state')
           /\ id \in Range(applied')
      /\ \A i \in DOMAIN updateChain :
           ( /\ updateChain[i].origin = "handleBreakReminderEnd"
             /\ applied' = Append(applied, updateChain[i].id) )
           => SessionCleared(state') ]_vars

\* C17 witness: the session expired, the end was detected, and the
\* notification has been raised after the mutation that cleared the three
\* fields of a running session was persisted and broadcast.
C17_Witness ==
  /\ observed.notified # {}
  /\ \E n \in DOMAIN broadcasts :
       /\ broadcasts[n].id \in observed.notified
       /\ {"isInFlow", "currentTask", "breakReminderEnabled"} \subseteq
            DOMAIN broadcasts[n].delta
  /\ SessionCleared(state)
  /\ now >= EndAt

\* C18: a step that sets the badge text to '00:00' leaves a state whose
\* isInFlow is not true, whichever path set it (badge alarm, end alarm,
\* tickers, offscreen ticker).
C18_NoZeroBadgeInFlow ==
  [][ (observed'.badge # observed.badge /\ observed'.badge = <<0, 0>>)
        => ~InFlow(state') ]_vars

\* promise continuations and storage callbacks do run, and the end alarm
\* fires or a liveness probe ticks
SpecTimerFair ==
  /\ SpecTimer
  /\ WF_vars(ChainStep)
  /\ WF_vars(EndAlarmOrProbe)

\* the session is in flow and the clock has reached its expected end
Expired(s) ==
  /\ InFlow(s)
  /\ expectedEndTime(s) # Null
  /\ now >= expectedEndTime(s).v

\* C19: whenever a session is in flow and the clock has reached its
\* expected end, the state eventually has isInFlow = false and
\* currentTask = '', whether breakReminderEnabled is true or false.
C19_ExpiredSessionEnds ==
  Expired(state) ~> (state.isInFlow = Bool(FALSE) /\ state.currentTask = Str(<<>>))


(***************************************************************************)
(* resetBreakReminder: the popup starts a session                          *)
(***************************************************************************)
\* typeof data?.task === 'string' ? data.task.trim() : ''
TaskOf(data) ==
  IF IsString(Get(data, "task")) THEN Trim(data.task.v) ELSE <<>>

\* the object resetBreakReminder hands to updateState
resetUpdates_FlagsOnly(task, reminderStartTime) ==
  [currentTask |-> Str(task), isInFlow |-> Bool(TRUE),
   breakReminderEnabled |-> Bool(TRUE)]
resetUpdates(task, reminderStartTime) ==
  [currentTask |-> Str(task), isInFlow |-> Bool(TRUE),
   breakReminderEnabled |-> Bool(TRUE),
   reminderStartTime |-> Num(reminderStartTime),
   reminderInterval |-> Num(BREAK_REMINDER_INTERVAL),
   reminderExpectedEndTime |-> Num(reminderStartTime + BREAK_REMINDER_INTERVAL)]

\* resetBreakReminder(data, sendResponse) on a hydrated runtime, up to the
\* 'Missing task' response or to the call of updateState
resetBreakReminder(data) ==
  /\ hasInitialized
  /\ ~MicrotasksPending
  /\ IF TaskOf(data) = <<>>
       THEN /\ observed' = Replied("resetBreakReminder", Undef, [data |-> data, at |-> now],
                                   Refused("Missing task"))
            /\ UNCHANGED << updateChain, nextId, budget >>
       ELSE /\ budget.updates > 0
            /\ budget' = [budget EXCEPT !.updates = @ - 1]
            /\ updateChain' =
                 Append(updateChain,
                        ChainTask("updateState", "resetBreakReminder",
                                  resetUpdates(TaskOf(data), now)))
            /\ nextId' = nextId + 1
            \* stopBreakReminder() clears the badge before the session restarts
            /\ observed' = [observed EXCEPT !.badge = <<>>, !.reply =
                              [action |-> "resetBreakReminder", sender |-> Undef,
                               message |-> [data |-> data, at |-> now],
                               status |-> "pending", reply |-> EmptyObject,
                               id |-> nextId]]
  /\ UNCHANGED << state, hasInitialized, initPromise, storedState, initCallers,
                  hydrationReads, applied, storage, storageEvents, broadcasts,
                  fallback, stateReads, gateActive, intentGate, stateDeltaSubscribers, now, lastOp, exercise, breakReminder >>

(***************************************************************************)
(* SpecReset: on a hydrated runtime the popup starts sessions with and     *)
(* without a task and stops them while the clock moves on.                 *)
(***************************************************************************)
\* message.data: no task, an empty one, a blank one, a number, a task
\* between blanks
ResetData ==
  { EmptyObject,
    [task |-> Str(<<>>)],
    [task |-> Str(<<" ", " ">>)],
    [task |-> Num(5)],
    [task |-> Str(<<" ", "B", " ">>)] }

NextReset ==
  \/ \E data \in ResetData : resetBreakReminder(data)
  \/ UpdateStateCall(EndCycle, "ui")
  \/ Tick
  \/ ChainStep

SpecReset == InitAB /\ [][NextReset]_vars

\* data.task is missing, not a string, empty or made of whitespace
BlankTask(data) ==
  \/ "task" \notin DOMAIN data
  \/ ~IsString(data.task)
  \/ \A k \in DOMAIN data.task.v : data.task.v[k] \in Whitespace

\* C20: resetBreakReminder with a missing, empty or whitespace-only task
\* answers with a failure and changes neither the state, the storage, the
\* broadcasts nor the chain; with another task it chains a mutation, and the
\* state that mutation leaves has isInFlow = true, breakReminderEnabled =
\* true, reminderStartTime = the time of the call and reminderExpectedEndTime
\* = reminderStartTime + reminderInterval.
C20_ResetStartsSession ==
  [][ /\ (observed'.reply # observed.reply /\ observed'.reply.action = "resetBreakReminder") =>
           \E r \in {observed'.reply} :
             IF BlankTask(r.message.data)
               THEN /\ r.status = "replied"
                    /\ r.reply.success = FALSE
                    /\ UNCHANGED << state, storage, storageEvents, broadcasts, updateChain >>
               ELSE /\ r.status = "pending"
                    /\ Len(updateChain') = Len(updateChain) + 1
                    /\ updateChain'[Len(updateChain')].id = r.id
      /\ ( /\ observed.reply.action = "resetBreakReminder"
           /\ observed.reply.status = "pending"
           /\ applied' = Append(applied, observed.reply.id) )
           => /\ state'.isInFlow = Bool(TRUE)
              /\ state'.breakReminderEnabled = Bool(TRUE)
              /\ state'.reminderStartTime = Num(observed.reply.message.at)
              /\ IsFiniteNumber(state'.reminderInterval)
              /\ state'.reminderExpectedEndTime =
                   Num(state'.reminderStartTime.v + state'.reminderInterval.v) ]_vars

\* C20 witness: over a running session the popup asked for a session on
\* ' B ', the clock moved on before the mutation ran, and the state holds the
\* new session with the start time of the call.
C20_Witness ==
  /\ observed.reply.action = "resetBreakReminder"
  /\ observed.reply.status = "pending"
  /\ observed.reply.id \in Range(applied)
  /\ observed.reply.message.at < now
  /\ observed.hydrated.reminderStartTime = Num(StartAt)
  /\ state.currentTask = Str(TaskB)
  /\ state.reminderStartTime = Num(observed.reply.message.at)
  /\ state.reminderExpectedEndTime =
       Num(observed.reply.message.at + BREAK_REMINDER_INTERVAL)


(***************************************************************************)
(* distraction_matcher.js, intent_gate_helpers.js: does a URL open the     *)
(* intent gate?                                                            *)
(***************************************************************************)
\* hostname.trim().toLowerCase().replace(/^www\./, '')
normalizeHostnameForComparison(hostname) ==
  IF ~IsString(hostname) THEN <<>>
  ELSE WithoutWww(ToLowerCase(Trim(hostname.v)))

\* new URL(url).hostname of an http(s) URL without credentials: the host
\* before the port, lower-cased by the parser
UrlHostname(url) ==
  ToLowerCase(BeforeFirst(BeforePath(WithoutProtocol(url)), ":"))

getHostnameFromUrl(url) ==
  IF ~IsString(url) THEN <<>>
  ELSE IF /\ ~StartsWith(url.v, <<"h","t","t","p",":","/","/">>)
          /\ ~StartsWith(url.v, <<"h","t","t","p","s",":","/","/">>)
    THEN <<>>
  \* new URL('https://') throws
  ELSE IF UrlHostname(url.v) = <<>> THEN <<>>
  ELSE normalizeHostnameForComparison(Str(UrlHostname(url.v)))

isHostnameInList_NoBoundary(hostname, sites) ==
  /\ normalizeHostnameForComparison(Str(hostname)) # <<>>
  /\ IsArray(sites)
  /\ \E i \in DOMAIN sites.v :
       /\ normalizeHostnameForComparison(sites.v[i]) # <<>>
       /\ EndsWith(normalizeHostnameForComparison(Str(hostname)),
                   normalizeHostnameForComparison(sites.v[i]))
isHostnameInList(hostname, sites) ==
  /\ normalizeHostnameForComparison(Str(hostname)) # <<>>
  /\ IsArray(sites)
  /\ \E i \in DOMAIN sites.v :
       \E host \in {normalizeHostnameForComparison(Str(hostname))},
          s \in {normalizeHostnameForComparison(sites.v[i])} :
         /\ s # <<>>
         /\ (host = s \/ EndsWith(host, <<".">> \o s))

NoMatch == [hostname |-> <<>>, shouldGate |-> FALSE, isDeepWorkBlocked |-> FALSE]

getIntentGateMatch(url, s) ==
  IF getHostnameFromUrl(url) = <<>> THEN NoMatch
  ELSE [hostname |-> getHostnameFromUrl(url),
        shouldGate |->
          \/ isHostnameInList(getHostnameFromUrl(url), Get(s, "distractingSites"))
          \/ /\ Truthy(Get(s, "isInFlow"))
             /\ isHostnameInList(getHostnameFromUrl(url), Get(s, "deepWorkBlockedSites")),
        isDeepWorkBlocked |->
          /\ Truthy(Get(s, "isInFlow"))
          /\ isHostnameInList(getHostnameFromUrl(url), Get(s, "deepWorkBlockedSites"))]

(***************************************************************************)
(* SpecMatch: the matcher on the states sanitizeStoredState and            *)
(* computeNextState produce from site lists the user stored.               *)
(***************************************************************************)
\* site lists as the options page or another context may have stored them
MatchStores ==
  { [distractingSites |-> StrList(d), deepWorkBlockedSites |-> StrList(w)] :
      d \in { << <<"x",".","c","o","m">> >>,
              << <<"W","W","W",".","X",".","c","o","m">>, <<"h","t","t","p","s",":","/","/","w","w","w",".","w","w","w",".","a",".","c","o","/","p">> >>,
              << <<"a",".","c","o">>, <<"w","w","w",".","w","w","w",".","w","w","w",".","d",".","c","o">> >> },
      w \in { << <<"d",".","c","o">> >>, << <<"x",".","c","o","m">>, <<"b",".","a",".","c","o">> >> } }

\* details.url, tab.url
MatchUrls ==
  { Str(<<"h","t","t","p","s",":","/","/","x",".","c","o","m","/">>), Str(<<"h","t","t","p",":","/","/","m",".","x",".","c","o","m","/","p","?","q">>),
    Str(<<"h","t","t","p","s",":","/","/","W","W","W",".","X",".","C","O","M",":","8","0","8","0","/">>), Str(<<"h","t","t","p","s",":","/","/","n","o","t","x",".","c","o","m","/">>),
    Str(<<"h","t","t","p","s",":","/","/","x",".","c","o","m",".","e","v","i","l",".","i","o","/">>), Str(<<"c","h","r","o","m","e",":","/","/","x",".","c","o","m","/">>),
    Str(<<"f","t","p",":","/","/","x",".","c","o","m","/">>), Str(<<"h","t","t","p","s",":","/","/">>), Undef,
    Str(<<"h","t","t","p","s",":","/","/","d",".","c","o","/","#","a">>), Str(<<"h","t","t","p","s",":","/","/","a",".","d",".","c","o","/">>),
    Str(<<"h","t","t","p","s",":","/","/","w","w","w",".","a",".","c","o","/">>), Str(<<"h","t","t","p","s",":","/","/","b",".","a",".","c","o","/">>),
    Str(<<"h","t","t","p","s",":","/","/","w","w","w",".","w","w","w",".","a",".","c","o","/">>), Str(<<"h","t","t","p","s",":","/","/","w","w","w",".","w","w","w",".","d",".","c","o","/">>) }

\* starting and ending a Deep Work session
MatchPatches == { [currentTask |-> Str(TaskA), isInFlow |-> Bool(TRUE)], EndCycle }

MatchSanitize ==
  /\ \E raw \in MatchStores :
       /\ state' = sanitizeStoredState(raw)
       /\ lastOp' = [op |-> "sanitizeStoredState", input |-> raw, prev |-> state]
  /\ RuntimeUntouched

MatchUrl ==
  /\ \E url \in MatchUrls :
       lastOp' = [op |-> "getIntentGateMatch", input |-> url,
                  prev |-> getIntentGateMatch(url, state)]
  /\ UNCHANGED state
  /\ RuntimeUntouched

MatchUpdate ==
  /\ \E updates \in MatchPatches :
       /\ state' = computeNextState(state, updates)
       /\ lastOp' = [op |-> "computeNextState", input |-> updates, prev |-> state]
  /\ RuntimeUntouched

MatchNext == MatchSanitize \/ MatchUrl \/ MatchUpdate

SpecMatch == CoreInit /\ [][MatchNext]_vars

\* url is an http or https URL
IsHttpUrl(url) ==
  /\ IsString(url)
  /\ \/ Len(url.v) >= 7 /\ SubSeq(url.v, 1, 7) = <<"h","t","t","p",":","/","/">>
     \/ Len(url.v) >= 8 /\ SubSeq(url.v, 1, 8) = <<"h","t","t","p","s",":","/","/">>

\* hostname is name itself or a subdomain of it: what precedes name ends with a dot
SameOrSubdomain(hostname, name) ==
  /\ name # <<>>
  /\ Len(hostname) >= Len(name)
  /\ \A k \in 1..Len(name) : hostname[Len(hostname) - Len(name) + k] = name[k]
  /\ Len(hostname) > Len(name) => hostname[Len(hostname) - Len(name)] = "."

\* the entries of a site list of the state, each changed by Entry
ListedBy(hostname, sites, Entry(_)) ==
  \E i \in DOMAIN sites.v : SameOrSubdomain(hostname, Entry(sites.v[i].v))

AsStored(entry) == entry

\* the last match agrees with the lists of the state read through Entry and
\* with the hostname read through Host
MatchContract(Host(_), Entry(_)) ==
  lastOp.op = "getIntentGateMatch" =>
    /\ lastOp.prev.shouldGate =
         /\ IsHttpUrl(lastOp.input)
         /\ lastOp.prev.hostname # <<>>
         /\ \/ ListedBy(Host(lastOp.prev.hostname), state.distractingSites, Entry)
            \/ /\ state.isInFlow = Bool(TRUE)
               /\ ListedBy(Host(lastOp.prev.hostname), state.deepWorkBlockedSites, Entry)
    /\ ~InFlow(state) => ~lastOp.prev.isDeepWorkBlocked

\* C25 as stated: shouldGate is true exactly when the URL is http/https and
\* its normalized hostname equals, or is a dot-separated subdomain of, an
\* entry of distractingSites, or isInFlow is true and the same holds for an
\* entry of deepWorkBlockedSites; isDeepWorkBlocked is false when isInFlow is.
C25_GateMatchesListedEntries == MatchContract(AsStored, AsStored)

\* C25 amended: the same, where the hostname and the entry are each compared
\* after a leading 'www.' is removed from them once more.
C25_GateMatchesNormalizedEntries == MatchContract(WithoutWww, WithoutWww)

\* C25 witness: out of flow, a URL whose hostname ends with the text of a
\* listed entry without a dot before it was not gated, and a URL of a site
\* on the Deep Work list only was not gated either.
C25_Witness ==
  /\ lastOp.op = "getIntentGateMatch"
  /\ ~InFlow(state)
  /\ lastOp.prev.hostname \in {<<"n","o","t","x",".","c","o","m">>, <<"d",".","c","o">>}
  /\ Str(<<"x",".","c","o","m">>) \in Range(state.distractingSites.v)
  /\ Str(<<"d",".","c","o">>) \in Range(state.deepWorkBlockedSites.v)
  /\ ~lastOp.prev.shouldGate




(***************************************************************************)
(* background_intentGate.js: the intent gate of one tab. Every await of a  *)
(* chrome call is a point where other handlers run: the call takes effect  *)
(* when it is issued and its continuation is a later step.                 *)
(***************************************************************************)
INTENT_GATE_ALLOW_MINUTES == 5
INTENT_GATE_ALLOW_MS == INTENT_GATE_ALLOW_MINUTES * 60 * 1000
INTENT_GATE_MIN_REASON_CHARS == 5
INTENT_GATE_LOG_LIMIT == 50
STORAGE_REASON_LOG == "intentGateReasonLog"

\* the tab of the model
GateTab == 7
getAllowKey(tabId) == IF tabId = GateTab THEN "intentGateTab_7" ELSE "intentGateTab_"
getPendingKey(tabId) ==
  IF tabId = GateTab THEN "intentGatePending_7" ELSE "intentGatePending_"

\* value.replace(/\s/g, '').length
countNonWhitespace_Length(value) ==
  IF ~IsString(value) THEN 0 ELSE Len(value.v)
countNonWhitespace(value) ==
  IF ~IsString(value) THEN 0
  ELSE Cardinality({i \in DOMAIN value.v : value.v[i] \notin Whitespace})

isIntentGateEnabled(s) == Truthy(Get(s, "intentGateEnabled"))

\* chrome.runtime.getURL('intent_gate.html') + '?tabId=' + tabId
BlockUrl(tabId) ==
  Str(ExtensionOrigin \o <<"intent_gate.html?tabId=", IF tabId = GateTab THEN "7" ELSE "">>)
\* the fallback of handleAllowAccess
ExampleUrl == Str(<<"h","t","t","p","s",":","/","/","e","x","a","m","p","l","e",".","c","o","m","/">>)

\* entry && typeof entry.expiresAt === 'number'
HasExpiry(entry) ==
  entry.t = "object" /\ IsFiniteNumber(Get(entry.v, "expiresAt"))

\* a handler of the gate suspended at an await: the URL it works on, the
\* state getState() gave it (for handleAllowAccess: the reason), and the
\* result of the chrome call it awaits; id tells the handlers apart
GateCall(fn, pc, url, s, aux) ==
  [id |-> CHOOSE n \in 0..Cardinality(intentGate.calls) :
            \A call \in intentGate.calls : call.id # n,
   fn |-> fn, pc |-> pc, url |-> url, s |-> s, aux |-> aux]

\* the handler goes on to its next await / returns
Goes(call, pc, aux) ==
  (intentGate.calls \ {call}) \cup {[call EXCEPT !.pc = pc, !.aux = aux]}
Returns(call) == intentGate.calls \ {call}

\* handleBeforeNavigate(details) from the event to the storage read of
\* isTabAllowed: the handlers in flight afterwards
BeforeNavigate(calls, url) ==
  IF /\ isIntentGateEnabled(state)
     /\ getIntentGateMatch(url, state).shouldGate
    THEN calls \cup {GateCall("handleBeforeNavigate", "isTabAllowed", url,
                               EmptyObject, Get(storage, getAllowKey(GateTab)))}
    ELSE calls

\* the continuation of handleStateUpdated's ensureInitialized().then(...) is a
\* microtask of the notification: it runs before any other handler starts
NoDeltaUnseen == intentGate.seen = Len(broadcasts)

\* no more handlers of the gate are started while this many are suspended
MaxInFlight == 2
MayStart == Cardinality(intentGate.calls) < MaxInFlight

GateUnchanged ==
  UNCHANGED << state, hasInitialized, initPromise, storedState, initCallers,
               hydrationReads, updateChain, nextId, applied, storageEvents,
               broadcasts, fallback, stateReads, gateActive, stateDeltaSubscribers,
               lastOp, exercise, breakReminder >>

\* chrome.webNavigation.onBeforeNavigate: the tab starts loading url
Navigate(url) ==
  /\ hasInitialized
  /\ NoDeltaUnseen
  /\ MayStart
  /\ ~MicrotasksPending
  /\ budget.navigations > 0
  /\ budget' = [budget EXCEPT !.navigations = @ - 1]
  /\ intentGate' = [intentGate EXCEPT !.tab = url,
                                      !.calls = BeforeNavigate(@, url)]
  /\ UNCHANGED << storage, now, observed >>
  /\ GateUnchanged

\* isTabAllowed after its storage read, in handleBeforeNavigate and in
\* checkActiveTabForGate
IsTabAllowedRead_Inclusive(call) ==
  /\ call \in intentGate.calls
  /\ NoDeltaUnseen
  /\ call.pc = "isTabAllowed"
  /\ ~MicrotasksPending
  /\ \E entry \in {call.aux} :
       IF HasExpiry(entry) /\ now <= entry.v.expiresAt.v
         THEN \* allowed: the handler returns
              /\ intentGate' = [intentGate EXCEPT !.calls = Returns(call)]
              /\ UNCHANGED storage
       ELSE IF HasExpiry(entry)
         THEN /\ storage' = StorageAfterRemove({getAllowKey(GateTab)})
              /\ intentGate' = [intentGate EXCEPT !.calls = Goes(call, "removeExpired", Undef)]
         ELSE \* setPendingUrl(tabId, url)
              /\ storage' = StorageAfterSet(
                   [key \in {getPendingKey(GateTab)} |-> call.url])
              /\ intentGate' = [intentGate EXCEPT !.calls = Goes(call, "setPendingUrl", Undef)]
  /\ UNCHANGED << budget, now, observed >>
  /\ GateUnchanged

IsTabAllowedRead(call) ==
  /\ call \in intentGate.calls
  /\ NoDeltaUnseen
  /\ call.pc = "isTabAllowed"
  /\ ~MicrotasksPending
  /\ \E entry \in {call.aux} :
       IF HasExpiry(entry) /\ now < entry.v.expiresAt.v
         THEN \* allowed: the handler returns
              /\ intentGate' = [intentGate EXCEPT !.calls = Returns(call)]
              /\ UNCHANGED storage
       ELSE IF HasExpiry(entry)
         THEN /\ storage' = StorageAfterRemove({getAllowKey(GateTab)})
              /\ intentGate' = [intentGate EXCEPT !.calls = Goes(call, "removeExpired", Undef)]
         ELSE \* setPendingUrl(tabId, url)
              /\ storage' = StorageAfterSet(
                   [key \in {getPendingKey(GateTab)} |-> call.url])
              /\ intentGate' = [intentGate EXCEPT !.calls = Goes(call, "setPendingUrl", Undef)]
  /\ UNCHANGED << budget, now, observed >>
  /\ GateUnchanged

\* isTabAllowed: await chrome.alarms.clear(...) after the expired entry was
\* removed, then return false and setPendingUrl
IsTabAllowedExpired(call) ==
  /\ call \in intentGate.calls
  /\ NoDeltaUnseen
  /\ call.pc \in {"removeExpired", "clearAlarm"}
  /\ ~MicrotasksPending
  /\ IF call.pc = "removeExpired"
       THEN /\ intentGate' = [intentGate EXCEPT !.alarm = Null,
                                                !.calls = Goes(call, "clearAlarm", Undef)]
            /\ UNCHANGED storage
       ELSE /\ storage' = StorageAfterSet(
                 [key \in {getPendingKey(GateTab)} |-> call.url])
            /\ intentGate' = [intentGate EXCEPT !.calls = Goes(call, "setPendingUrl", Undef)]
  /\ UNCHANGED << budget, now, observed >>
  /\ GateUnchanged

\* the tab was sent to the intent gate page by `by`, which blocked it on url
Redirected(by, url) == [by |-> by, url |-> url]

\* blockTab(tabId) after setPendingUrl
BlockTab(call) ==
  /\ call \in intentGate.calls
  /\ NoDeltaUnseen
  /\ call.pc = "setPendingUrl"
  /\ ~MicrotasksPending
  /\ intentGate' =
       [intentGate EXCEPT !.tab = BlockUrl(GateTab),
                          !.blocked = Redirected(call.fn, call.url),
                          !.calls = Returns(call)]
  /\ UNCHANGED << storage, budget, now, observed >>
  /\ GateUnchanged

\* handleStateUpdated(delta) for the next delta of the runtime, with the
\* start of clearAllTabIntentGateData or of checkActiveTabForGate
GateStateUpdated ==
  /\ hasInitialized
  /\ intentGate.seen < Len(broadcasts)
  /\ \E delta \in {broadcasts[intentGate.seen + 1].delta} :
       intentGate' =
         [intentGate EXCEPT
            !.seen = @ + 1,
            !.calls =
              IF DOMAIN delta \cap {"intentGateEnabled", "distractingSites",
                                    "deepWorkBlockedSites", "isInFlow"} = {}
                THEN @
              ELSE IF ~isIntentGateEnabled(state)
                THEN @ \cup {GateCall("clearAllTabIntentGateData", "getAll", Undef,
                                       EmptyObject, Undef)}
              ELSE @ \cup {GateCall("checkActiveTabForGate", "queryTab",
                                     intentGate.tab, state, Undef)}]
  /\ UNCHANGED << storage, budget, now, observed >>
  /\ GateUnchanged

\* checkActiveTabForGate after chrome.tabs.query
CheckActiveTab(call) ==
  /\ call \in intentGate.calls
  /\ NoDeltaUnseen
  /\ call.pc = "queryTab"
  /\ ~MicrotasksPending
  /\ intentGate' =
       [intentGate EXCEPT !.calls =
          IF getIntentGateMatch(call.url, call.s).shouldGate
            THEN Goes(call, "isTabAllowed", Get(storage, getAllowKey(GateTab)))
            ELSE Returns(call)]
  /\ UNCHANGED << storage, budget, now, observed >>
  /\ GateUnchanged

\* clearAllTabIntentGateData after chrome.storage.local.get(null): the
\* per-tab keys are removed, then the expiry alarms are cleared
ClearAllTabs(call) ==
  /\ call \in intentGate.calls
  /\ NoDeltaUnseen
  /\ call.fn = "clearAllTabIntentGateData"
  /\ ~MicrotasksPending
  /\ IF call.pc = "getAll"
       THEN /\ storage' = StorageAfterRemove({getAllowKey(GateTab), getPendingKey(GateTab)})
            /\ intentGate' = [intentGate EXCEPT !.calls = Goes(call, "getAlarms", Undef)]
       ELSE /\ intentGate' = [intentGate EXCEPT !.alarm = Null, !.calls = Returns(call)]
            /\ UNCHANGED storage
  /\ UNCHANGED << budget, now, observed >>
  /\ GateUnchanged

\* a pending answer to the intentGateAllowAccess message
GateReply(sender, message, status, response) ==
  [observed EXCEPT !.reply = [action |-> "intentGateAllowAccess", sender |-> sender,
                              message |-> message, status |-> status,
                              reply |-> response, id |-> 0]]

\* typeof data?.reason === 'string' ? data.reason.trim() : ''
ReasonOf(data) ==
  IF IsString(Get(data, "reason")) THEN Str(Trim(data.reason.v)) ELSE Str(<<>>)

\* handleAllowAccess(message, sender, sendResponse) up to the storage read
\* of logReason
handleAllowAccess(sender, data) ==
  /\ hasInitialized
  /\ NoDeltaUnseen
  /\ MayStart
  /\ ~MicrotasksPending
  /\ budget.reasons > 0
  \* the page that the tab shows sends the message
  /\ sender.url = intentGate.tab
  /\ budget' = [budget EXCEPT !.reasons = @ - 1]
  /\ IF ~isTrustedExtensionSender(sender)
       THEN /\ observed' = GateReply(sender, data, "replied", Refused("Forbidden"))
            /\ UNCHANGED intentGate
     \* Number(data?.tabId)
     ELSE IF ~IsFiniteNumber(Get(data, "tabId"))
       THEN /\ observed' = GateReply(sender, data, "replied", Refused("Invalid tab"))
            /\ UNCHANGED intentGate
     ELSE IF countNonWhitespace(ReasonOf(data)) < INTENT_GATE_MIN_REASON_CHARS
       THEN /\ observed' = GateReply(sender, data, "replied", Refused("Reason too short"))
            /\ UNCHANGED intentGate
     ELSE /\ observed' = GateReply(sender, data, "pending", EmptyObject)
          /\ intentGate' =
               [intentGate EXCEPT !.calls =
                  @ \cup {GateCall("handleAllowAccess", "logRead", Undef,
                                    [reason |-> ReasonOf(data)],
                                    Get(storage, STORAGE_REASON_LOG))}]
  /\ UNCHANGED << storage, now >>
  /\ GateUnchanged

\* log.unshift({ reason, timestamp }); log.length = INTENT_GATE_LOG_LIMIT
LogWith(log, reason) ==
  Arr(SubSeq(<< Obj([reason |-> reason, timestamp |-> Num(now)]) >>
               \o (IF IsArray(log) THEN log.v ELSE <<>>),
             1,
             IF IsArray(log) /\ Len(log.v) >= INTENT_GATE_LOG_LIMIT
               THEN INTENT_GATE_LOG_LIMIT ELSE 1 + (IF IsArray(log) THEN Len(log.v) ELSE 0)))

\* the allow entry of allowTabForWindow
AllowEntry(since) ==
  Obj([allowed |-> Bool(TRUE), expiresAt |-> Num(since + INTENT_GATE_ALLOW_MS)])

\* handleAllowAccess: logReason and allowTabForWindow, one await at a time
AllowAccessStores(call) ==
  /\ call \in intentGate.calls
  /\ NoDeltaUnseen
  /\ call.pc \in {"logRead", "logSet", "allowSet"}
  /\ ~MicrotasksPending
  /\ \E reason \in {call.s.reason} :
       CASE call.pc = "logRead" ->
              /\ storage' = StorageAfterSet(
                   [key \in {STORAGE_REASON_LOG} |-> LogWith(call.aux, reason)])
              /\ intentGate' = [intentGate EXCEPT !.calls = Goes(call, "logSet", Undef)]
         [] call.pc = "logSet" ->
              /\ storage' = StorageAfterSet(
                   [key \in {getAllowKey(GateTab)} |-> AllowEntry(now)])
              /\ intentGate' = [intentGate EXCEPT !.calls = Goes(call, "allowSet", Undef)]
         [] OTHER ->
              \* chrome.alarms.create(name, { delayInMinutes })
              /\ intentGate' =
                   [intentGate EXCEPT !.alarm = Num(now + INTENT_GATE_ALLOW_MS),
                                      !.calls = Goes(call, "alarmCreate", Undef)]
              /\ UNCHANGED storage
  /\ UNCHANGED << budget, now, observed >>
  /\ GateUnchanged

\* typeof result?.[pendingKey] === 'string' ? result[pendingKey] : 'https://example.com/'
PendingUrlOf(stored) == IF IsString(stored) THEN stored ELSE ExampleUrl

\* handleAllowAccess: the pending URL is read, removed, and the tab is sent
\* to it; the navigation reaches handleBeforeNavigate
AllowAccessRestores(call) ==
  /\ call \in intentGate.calls
  /\ NoDeltaUnseen
  /\ call.pc \in {"alarmCreate", "pendingRead", "pendingRemove", "tabsUpdate"}
  /\ ~MicrotasksPending
  /\ CASE call.pc = "alarmCreate" ->
            /\ intentGate' =
                 [intentGate EXCEPT !.calls =
                    Goes(call, "pendingRead", Get(storage, getPendingKey(GateTab)))]
            /\ UNCHANGED << storage, observed >>
       [] call.pc = "pendingRead" ->
            /\ storage' = StorageAfterRemove({getPendingKey(GateTab)})
            /\ intentGate' =
                 [intentGate EXCEPT !.calls =
                    Goes(call, "pendingRemove", PendingUrlOf(call.aux))]
            /\ UNCHANGED observed
       [] call.pc = "pendingRemove" ->
            /\ intentGate' =
                 [intentGate EXCEPT
                    !.tab = call.aux,
                    !.calls = BeforeNavigate(Goes(call, "tabsUpdate", call.aux),
                                             call.aux)]
            /\ UNCHANGED << storage, observed >>
       [] OTHER ->
            /\ observed' = [observed EXCEPT !.reply.status = "replied",
                                            !.reply.reply = [success |-> TRUE]]
            /\ intentGate' = [intentGate EXCEPT !.calls = Returns(call)]
            /\ UNCHANGED storage
  /\ UNCHANGED << budget, now >>
  /\ GateUnchanged

\* chrome.alarms.onAlarm for the tab's expiry: handleAlarm up to its
\* chrome.storage.local.remove
ExpiryAlarm ==
  /\ hasInitialized
  /\ NoDeltaUnseen
  /\ MayStart
  /\ ~MicrotasksPending
  /\ IsFiniteNumber(intentGate.alarm)
  /\ now >= intentGate.alarm.v
  /\ storage' = StorageAfterRemove({getAllowKey(GateTab)})
  /\ intentGate' =
       [intentGate EXCEPT !.alarm = Null,
                          !.calls = @ \cup {GateCall("handleAlarm", "removeAllow", Undef,
                                                      EmptyObject, Undef)}]
  /\ UNCHANGED << budget, now, observed >>
  /\ GateUnchanged

\* handleAlarm: getState() and chrome.tabs.get after the removal, then the
\* match of the tab's URL and blockTab
handleAlarmRechecks_Granted(call) ==
  /\ call \in intentGate.calls
  /\ NoDeltaUnseen
  /\ call.fn = "handleAlarm"
  /\ ~MicrotasksPending
  /\ IF call.pc = "removeAllow"
       THEN intentGate' =
              [intentGate EXCEPT !.calls =
                 Returns(call) \cup {[call EXCEPT !.pc = "tabsGet", !.url = intentGate.tab,
                                                   !.s = state]}]
     ELSE IF getIntentGateMatch(call.url, observed.hydrated).shouldGate
       THEN intentGate' =
              [intentGate EXCEPT !.tab = BlockUrl(GateTab),
                                 !.blocked = Redirected("handleAlarm", call.url),
                                 !.calls = Returns(call)]
       ELSE intentGate' = [intentGate EXCEPT !.calls = Returns(call)]
  /\ UNCHANGED << storage, budget, now, observed >>
  /\ GateUnchanged

handleAlarmRechecks(call) ==
  /\ call \in intentGate.calls
  /\ NoDeltaUnseen
  /\ call.fn = "handleAlarm"
  /\ ~MicrotasksPending
  /\ IF call.pc = "removeAllow"
       THEN intentGate' =
              [intentGate EXCEPT !.calls =
                 Returns(call) \cup {[call EXCEPT !.pc = "tabsGet", !.url = intentGate.tab,
                                                   !.s = state]}]
     ELSE IF getIntentGateMatch(call.url, call.s).shouldGate
       THEN intentGate' =
              [intentGate EXCEPT !.tab = BlockUrl(GateTab),
                                 !.blocked = Redirected("handleAlarm", call.url),
                                 !.calls = Returns(call)]
       ELSE intentGate' = [intentGate EXCEPT !.calls = Returns(call)]
  /\ UNCHANGED << storage, budget, now, observed >>
  /\ GateUnchanged

\* time passes, an allow window at a time, while no handler of the gate is
\* suspended (their awaits take milliseconds)
GateTickMs == INTENT_GATE_ALLOW_MS
MaxGateTicks == 1
GateTick ==
  /\ NoDeltaUnseen
  /\ intentGate.calls = {}
  /\ now < StartAt + 1 + MaxGateTicks * GateTickMs
  /\ now' = now + GateTickMs
  /\ UNCHANGED << storage, budget, intentGate, observed >>
  /\ GateUnchanged


(***************************************************************************)
(* SpecGate: on a hydrated runtime the tab navigates, the gate page asks   *)
(* for access, allowances expire, and the UI changes the state meanwhile.  *)
(***************************************************************************)
UrlX == Str(<<"h","t","t","p","s",":","/","/","x",".","c","o","m","/">>)
UrlD == Str(<<"h","t","t","p","s",":","/","/","m",".","d",".","c","o","/","c","h","a","t">>)
UrlOk == Str(<<"h","t","t","p","s",":","/","/","o","k",".","i","o","/">>)
\* details.url of the navigations: a distracting site, a site blocked in
\* Deep Work only, a site on neither list
GateUrls == {UrlX, UrlD, UrlOk}

GatePageSender ==
  [page |-> "gate", id |-> RuntimeId, url |-> BlockUrl(GateTab)]
\* sender and message.data of intentGateAllowAccess: the gate page with a
\* short reason, with a reason of four letters between blanks, with a reason
\* of five, without a reason; a content script with a good reason
AllowAccessMessages ==
  { <<GatePageSender, [tabId |-> Num(GateTab), reason |-> Str(<<"a","b">>)]>>,
    <<GatePageSender, [tabId |-> Num(GateTab), reason |-> Str(<<" ","a"," ","b"," ","c"," ","d"," ">>)]>>,
    <<GatePageSender, [tabId |-> Num(GateTab), reason |-> Str(<<" ","m","a","i","l"," ","!"," ">>)]>>,
    <<GatePageSender, [tabId |-> Num(GateTab)]>>,
    <<[page |-> "content", id |-> RuntimeId, url |-> UrlX],
      [tabId |-> Num(GateTab), reason |-> Str(<<"m","a","i","l","!">>)]>> }

\* what the popup and the options page ask for meanwhile
GatePatches ==
  { [currentTask |-> Str(TaskA), isInFlow |-> Bool(TRUE)],
    EndCycle,
    [intentGateEnabled |-> Bool(FALSE)] }

\* what storage held when the worker woke: no session and no allowance; a
\* session in flow and an allowance granted to the tab a second earlier
StoresGate ==
  { Merge(UserSites, [currentTask |-> Str(TaskC)]),
    Merge(UserSites, [currentTask |-> Str(TaskC), isInFlow |-> Bool(TRUE),
                      intentGateTab_7 |-> AllowEntry(StartAt)]) }

\* the tab and its expiry alarm when the worker woke with that storage
GateOver(store) ==
  IF getAllowKey(GateTab) \in DOMAIN store
    THEN [NoGate EXCEPT !.tab = UrlD, !.alarm = store[getAllowKey(GateTab)].v.expiresAt]
    ELSE NoGate

MaxNavigations == 2
MaxReasons == 1
MaxGateUpdates == 1

InitGate ==
  /\ \E store \in StoresGate : HydratedFrom(store) /\ intentGate = GateOver(store)
  /\ stateDeltaSubscribers = onStateDelta(SubscribersOf(initCallers), Subscriber("intentGate"))
  /\ budget = [updates |-> MaxGateUpdates, fallbacks |-> 0, writes |-> 0,
               navigations |-> MaxNavigations, reasons |-> MaxReasons]

GateStep ==
  \/ \E call \in intentGate.calls : IsTabAllowedRead(call)
  \/ \E call \in intentGate.calls : IsTabAllowedExpired(call)
  \/ \E call \in intentGate.calls : BlockTab(call)
  \/ \E call \in intentGate.calls : CheckActiveTab(call)
  \/ \E call \in intentGate.calls : ClearAllTabs(call)
  \/ \E call \in intentGate.calls : AllowAccessStores(call)
  \/ \E call \in intentGate.calls : AllowAccessRestores(call)
  \/ \E call \in intentGate.calls : handleAlarmRechecks(call)
  \/ GateStateUpdated

NextGate ==
  \/ \E url \in GateUrls : Navigate(url)
  \/ \E m \in AllowAccessMessages : handleAllowAccess(m[1], m[2])
  \/ ExpiryAlarm
  \/ GateTick
  \/ GateStep
  \/ NoDeltaUnseen /\ \E updates \in GatePatches : UpdateStateCall(updates, "ui")
  \/ NoDeltaUnseen /\ ChainStep

SpecGate == InitGate /\ [][NextGate]_vars


\* the allow entry is one whose expiresAt is later than now
Unexpired(entry) == HasExpiry(entry) /\ entry.v.expiresAt.v > now

\* url is a gate match under s: an http(s) URL whose hostname is a listed
\* site or a subdomain of one, the Deep Work list counting in flow only
GateMatch(url, s) ==
  /\ IsHttpUrl(url)
  /\ \E hostname \in {WithoutWww(getHostnameFromUrl(url))} :
       \/ ListedBy(hostname, s.distractingSites, WithoutWww)
       \/ s.isInFlow = Bool(TRUE) /\ ListedBy(hostname, s.deepWorkBlockedSites, WithoutWww)

\* the handler `call` of this state has returned in the next one
Returned(call) == \A next \in intentGate'.calls : next.id # call.id
\* the handler `call` of this state stands at one of `pcs` in the next one
GoneOn(call, pcs) ==
  \E next \in intentGate'.calls : next.id = call.id /\ next.pc \in pcs
\* the handler `call` was started by this step
Started(call) == \A before \in intentGate.calls : before.id # call.id

\* this step is handler `call` sending the tab to the intent gate page
Blocks(call) ==
  /\ call.pc \in {"setPendingUrl", "tabsGet"}
  /\ Returned(call)
  /\ intentGate'.tab = BlockUrl(GateTab)
  /\ intentGate'.blocked = Redirected(call.fn, call.url)

\* the handler `call` of this state took a step
Stepped(call) == ~GoneOn(call, {call.pc})

NonWhitespaceOf(data) ==
  IF "reason" \in DOMAIN data /\ IsString(data.reason)
    THEN Cardinality({k \in DOMAIN data.reason.v : data.reason.v[k] \notin {" ", "\t", "\n"}})
    ELSE 0

\* C22: a justification with fewer than 5 non-whitespace characters is
\* answered with a failure and leaves storage (allowance, log), the expiry
\* alarm and the tab as they were; one with at least 5 from the gate page
\* starts the handler, which stores an allowance with expiresAt = now + 5
\* minutes and then schedules the expiry alarm, and no allowance is stored
\* by anything else.
C22_ShortReasonRejected ==
  [][ /\ budget'.reasons < budget.reasons =>
           \E r \in {observed'.reply} :
             IF NonWhitespaceOf(r.message) < 5
               THEN /\ r.status = "replied"
                    /\ r.reply.success = FALSE
                    /\ UNCHANGED << storage, intentGate >>
             ELSE IF r.sender.page = "gate"
               THEN /\ r.status = "pending"
                    /\ \E call \in intentGate'.calls :
                         Started(call) /\ call.fn = "handleAllowAccess"
               ELSE UNCHANGED << storage, intentGate >>
      /\ Get(storage', getAllowKey(GateTab)) \notin {Get(storage, getAllowKey(GateTab)), Undef}
           => /\ \E call \in intentGate.calls :
                   /\ call.fn = "handleAllowAccess"
                   /\ Cardinality({k \in DOMAIN call.s.reason.v :
                                     call.s.reason.v[k] \notin {" ", "\t", "\n"}}) >= 5
              /\ storage'[getAllowKey(GateTab)].v.expiresAt = Num(now + 5 * 60 * 1000)
      /\ \A call \in intentGate.calls :
           (call.pc = "allowSet" /\ ~GoneOn(call, {"allowSet"}))
             => intentGate'.alarm = Num(now + 5 * 60 * 1000) ]_vars

\* C22 witness: the gate page of the blocked tab sent four letters between
\* blanks; the answer is the refusal, the tab still shows the gate page and
\* has no allowance, no log and no alarm.
C22_Witness ==
  /\ observed.reply.action = "intentGateAllowAccess"
  /\ observed.reply.status = "replied"
  /\ observed.reply.reply = Refused("Reason too short")
  /\ NonWhitespaceOf(observed.reply.message) = 4
  /\ Len(observed.reply.message.reason.v) = 9
  /\ intentGate.tab = BlockUrl(GateTab)
  /\ intentGate.alarm = Null
  /\ DOMAIN storage \cap {getAllowKey(GateTab), STORAGE_REASON_LOG} = {}

\* C23: when the gate page's justification is accepted while the tab shows
\* the intent gate page it was redirected to, the tab is sent to the URL it
\* was blocked on, whichever handler redirected it.
C23_JustificationRestoresBlockedUrl ==
  [][ \A call \in intentGate.calls :
        ( /\ call.fn = "handleAllowAccess"
          /\ call.pc = "pendingRemove"
          /\ ~GoneOn(call, {"pendingRemove"})
          /\ intentGate.tab = BlockUrl(GateTab) )
          => intentGate'.tab = intentGate.blocked.url ]_vars

\* C24: the expiry alarm removes the allowance entry; its handler then reads
\* the state and the tab's URL as they are at that time, and sends the tab
\* to the intent gate page only if that URL is a gate match under that state.
C24_ExpiryRechecksCurrentState ==
  [][ /\ (intentGate.alarm # Null /\ intentGate'.alarm = Null
            /\ \E call \in intentGate'.calls : Started(call) /\ call.fn = "handleAlarm")
           => getAllowKey(GateTab) \notin DOMAIN storage'
      /\ \A call \in intentGate.calls :
           call.fn = "handleAlarm" =>
             /\ (call.pc = "removeAllow" /\ ~GoneOn(call, {"removeAllow"}))
                  => \E next \in intentGate'.calls :
                       next.id = call.id /\ next.s = state /\ next.url = intentGate.tab
             /\ Blocks(call) => GateMatch(call.url, call.s) ]_vars

\* C24 witness: the allowance was granted in flow for a site blocked in Deep
\* Work only; the session ended during the window; the alarm fired and its
\* handler returned, the tab still on the site and the entry gone.
C24_Witness ==
  /\ intentGate.tab = UrlD
  /\ ~InFlow(state)
  /\ observed.hydrated.isInFlow = Bool(TRUE)
  /\ intentGate.alarm = Null
  /\ intentGate.calls = {}
  /\ intentGate.blocked.by = "none"
  /\ now >= StartAt + INTENT_GATE_ALLOW_MS
  /\ getAllowKey(GateTab) \notin DOMAIN storage


(***************************************************************************)
(* SpecNotify: on a hydrated runtime whose modules subscribed in some      *)
(* order, some with a function that throws, the UI updates the state and   *)
(* another context writes storage.                                         *)
(***************************************************************************)
\* the subscriptions of initBreakReminder, initExerciseReminder,
\* initMindfulnessReminder and initIntentGate, each called once or twice, in
\* the order given
RECURSIVE SubscribeAll(_, _)
SubscribeAll(subscribers, order) ==
  IF order = <<>> THEN subscribers
  ELSE SubscribeAll(onStateDelta(subscribers, Head(order)), Tail(order))

Registrations ==
  { << Subscriber("breakReminder") >>,
    << Faulty("exerciseReminder"), Subscriber("breakReminder"),
       Subscriber("intentGate") >>,
    << Subscriber("breakReminder"), Faulty("mindfulnessReminder"),
       Subscriber("breakReminder"), Subscriber("intentGate") >>,
    << Subscriber("intentGate"), Faulty("breakReminder"),
       Subscriber("exerciseReminder"), Subscriber("intentGate") >>,
    << Faulty("intentGate"), Faulty("mindfulnessReminder"),
       Subscriber("breakReminder"), Faulty("exerciseReminder") >> }

MaxNotifyUpdates == 2
MaxNotifyWrites == 1

InitNotify ==
  /\ \E store \in StoresChain : HydratedFrom(store)
  /\ intentGate = NoGate
  /\ \E order \in Registrations : stateDeltaSubscribers = SubscribeAll(<<>>, order)
  /\ budget = [updates |-> MaxNotifyUpdates, fallbacks |-> 0,
               writes |-> MaxNotifyWrites]

NextNotify ==
  \/ \E updates \in UiPatches : UpdateStateCall(updates, "ui")
  \/ \E items \in ExternalWrites : ExternalWrite(items)
  \/ ChainStep

SpecNotify == InitNotify /\ [][NextNotify]_vars

\* the mutation `task` of this state finishes in this step having changed
\* the state: its storage write completed, or it had nothing to write
Finishes(task) ==
  /\ \A k \in DOMAIN updateChain' : updateChain'[k].id # task.id
  /\ task.pc = "persist" \/ state' # state

\* C26: a mutation that finishes with a non-empty delta has invoked every
\* subscriber once, in the order of registration, whether or not an earlier
\* one threw; it has sent the broadcast of its delta and its promise has
\* resolved true.
C26_ThrowingSubscriberIsolated ==
  [][ \A i \in DOMAIN updateChain :
        Finishes(updateChain[i]) =>
          /\ Len(observed'.invoked) = Len(observed.invoked) + Len(stateDeltaSubscribers)
          /\ \A k \in DOMAIN stateDeltaSubscribers :
               /\ observed'.invoked[Len(observed.invoked) + k].fn
                    = stateDeltaSubscribers[k].fn
               /\ observed'.invoked[Len(observed.invoked) + k].id = updateChain[i].id
          /\ Len(broadcasts') = Len(broadcasts) + 1
          /\ broadcasts'[Len(broadcasts')].id = updateChain[i].id
          /\ [id |-> updateChain[i].id, result |-> TRUE] \in observed'.resolved ]_vars

\* C26 witness: for one mutation a subscriber threw and a subscriber
\* registered after it was invoked; the delta was broadcast and the promise
\* resolved true.
C26_Witness ==
  \E j, k \in DOMAIN observed.invoked :
    /\ j < k
    /\ observed.invoked[j].threw
    /\ ~observed.invoked[k].threw
    /\ observed.invoked[j].id = observed.invoked[k].id
    /\ \E n \in DOMAIN broadcasts : broadcasts[n].id = observed.invoked[j].id
    /\ [id |-> observed.invoked[j].id, result |-> TRUE] \in observed.resolved


(***************************************************************************)
(* Persist, then notify (SpecFault)                                        *)
(***************************************************************************)
\* the mutations whose delta the subscribers / the other contexts were told
ToldSubscribers == {observed.invoked[k].id : k \in DOMAIN observed.invoked}
ToldContexts == {broadcasts[n].id : n \in DOMAIN broadcasts}

\* C27: a mutation that has not yet come back from its storage write has
\* neither notified the subscribers nor broadcast its delta, and no
\* subscriber and no other context is told of the delta of a mutation whose
\* write did not reach storage.
C27_NotifiedAfterPersisted ==
  /\ \A i \in DOMAIN updateChain :
       updateChain[i].id \notin ToldSubscribers \cup ToldContexts
  /\ (ToldSubscribers \cup ToldContexts) \cap observed.failed = {}


(***************************************************************************)
(* SpecSafely: pages call updateStateSafely(payload) while the hydrated    *)
(* runtime answers, answers late or is not reached.                        *)
(***************************************************************************)
\* sendMessageSafely(message, { timeoutMs }) of messaging.js: the reply of
\* the background, or null when the extension context is invalid, the timer
\* of timeoutMs fires first, or chrome.runtime.lastError is set
sendMessageSafely(outcome) ==
  IF outcome.kind = "reply" THEN outcome.reply ELSE Null

\* response !== null
BackgroundReplied_Succeeded(response) ==
  response # Null /\ "success" \in DOMAIN response /\ response.success
BackgroundReplied(response) == response # Null

\* return !!response?.success
SuccessOf(response) ==
  Bool("success" \in DOMAIN response /\ response.success)

\* the arguments of updateStateSafely: a session start with an interval, a
\* task with timer fields and a key of no schema, timer fields only, a
\* session stop, null
SafelyPayloads ==
  { [t |-> "object",
     v |-> [currentTask |-> Str(TaskB), isInFlow |-> Bool(TRUE),
            breakReminderEnabled |-> Bool(TRUE),
            reminderInterval |-> Num(MIN_INTERVAL_MS)]],
    [t |-> "object",
     v |-> [currentTask |-> Str(TaskA), reminderStartTime |-> Num(7),
            legacyKey |-> Bool(TRUE)]],
    [t |-> "object", v |-> [reminderStartTime |-> Num(7)]],
    [t |-> "object", v |-> [isInFlow |-> Bool(FALSE)]],
    Null }

\* the pages that call it: the popup, a content script
SafelySenders ==
  { sender \in Senders : sender.page = "popup" \/ sender.url = Undef }

\* what the listener has handed to sendResponse: the refusal, or
\* { success: !!success } once the promise of updateState has resolved
SentResponses ==
  IF observed.reply.status = "replied" THEN {observed.reply.reply}
  ELSE IF observed.reply.status = "pending"
    THEN { [success |-> r.result] :
             r \in {r \in observed.resolved : r.id = observed.reply.id} }
  ELSE {}

\* how the await of sendMessageSafely ends
Outcomes ==
  { [kind |-> kind, reply |-> EmptyObject] : kind \in {"timeout", "lastError"} }
  \cup { [kind |-> "reply", reply |-> response] : response \in SentResponses }

\* updateStateSafely(payload), up to its first return or to the call of
\* chrome.runtime.sendMessage
updateStateSafely(payload) ==
  /\ budget.fallbacks > 0
  /\ fallback.pc \notin {"sent", "read"}
  /\ budget' = [budget EXCEPT !.fallbacks = @ - 1]
  /\ \E filteredPayload \in
          { IF payload.t = "object" THEN FilterPayload(payload.v) ELSE EmptyObject } :
       fallback' = [NoFallback EXCEPT
                      !.input = payload,
                      !.payload = filteredPayload,
                      !.pc = IF IsEmptyObject(filteredPayload) THEN "returned" ELSE "sent",
                      !.result = IF IsEmptyObject(filteredPayload) THEN Bool(FALSE) ELSE Undef]
  /\ observed' = [observed EXCEPT !.reply = NoReply]
  /\ UNCHANGED << state, hasInitialized, initPromise, storedState, initCallers,
                  hydrationReads, updateChain, nextId, applied, storage,
                  storageEvents, broadcasts, stateReads, gateActive, intentGate,
                  stateDeltaSubscribers, now, lastOp, exercise, breakReminder >>

\* the message of the call reaches the onMessage listener of the background
SafelyDelivered(sender) ==
  /\ fallback.pc = "sent"
  /\ observed.reply.status = "none"
  /\ UpdateStateMessage(sender, [payload |-> [t |-> "object", v |-> fallback.payload]])

\* the await of sendMessageSafely ends: return !!response?.success, or
\* chrome.storage.local.get(null) is called
SafelyResponse(outcome) ==
  /\ fallback.pc = "sent"
  /\ outcome.kind = "lastError" => observed.reply.status = "none"
  /\ \E response \in {sendMessageSafely(outcome)} :
       fallback' =
         IF BackgroundReplied(response)
           THEN [fallback EXCEPT !.pc = "returned", !.response = response,
                                 !.result = SuccessOf(response)]
           ELSE [fallback EXCEPT !.pc = "read", !.response = response,
                                 !.stored = storage]
  /\ UNCHANGED << state, hasInitialized, initPromise, storedState, initCallers,
                  hydrationReads, updateChain, nextId, applied, storage,
                  storageEvents, broadcasts, budget, stateReads, gateActive,
                  intentGate, stateDeltaSubscribers, now, lastOp, observed, exercise, breakReminder >>

MaxSafelyCalls == 2
MaxSafelyUpdates == 2

InitSafely ==
  /\ \E store \in StoresMsg : HydratedFrom(store)
  /\ intentGate = NoGate
  /\ stateDeltaSubscribers = SubscribersOf(initCallers)
  /\ budget = [updates |-> MaxSafelyUpdates, fallbacks |-> MaxSafelyCalls,
               writes |-> 0]

NextSafely ==
  \/ \E payload \in SafelyPayloads : updateStateSafely(payload)
  \/ \E sender \in SafelySenders : SafelyDelivered(sender)
  \/ \E outcome \in Outcomes : SafelyResponse(outcome)
  \/ FallbackWrite
  \/ ChainStep

SpecSafely == InitSafely /\ [][NextSafely]_vars

\* the diff between the sanitized stored state and the state obtained by
\* applying the allowlist-filtered argument through computeNextState
DiffOfFiltered(stored, input) ==
  LET current == sanitizeStoredState(stored)
      filtered == [key \in DOMAIN input.v \cap UI_ALLOWED_UPDATE_KEYS |-> input.v[key]]
  IN diffState(current, computeNextState(current, filtered))

HydrationStores ==
  { EmptyObject,
    Merge(Merge(RunningSession, UserSites),
          [intentGateReasonLog |-> Arr(<<Str(<<"m","a","i","l">>)>>)]),
    [currentTask |-> Str(TaskB), isInFlow |-> Str(<<"y">>),
     reminderInterval |-> Num(MIN_INTERVAL_MS),
     distractingSites |-> StrList(<< <<"X", ".", "c", "o", "m">> >>),
     legacyKey |-> Bool(TRUE), intentGateTab |-> Num(7),
     chatgptZenMode |-> Bool(TRUE),
     intentGateTab_7 |-> AllowEntry(StartAt), intentGatePending_7 |-> UrlD,
     intentGateReasonLog |-> Arr(<<Str(<<"m","a","i","l">>)>>)] }

\* content.js, toggleChatgptZenMode: chrome.storage.local.set({
\* [CHATGPT_ZEN_STORAGE_KEY]: isChatgptZenModeEnabled })
toggleChatgptZenMode ==
  /\ budget.writes > 0
  /\ budget' = [budget EXCEPT !.writes = @ - 1]
  /\ \E items \in {[chatgptZenMode |-> Bool(Get(storage, "chatgptZenMode") # Bool(TRUE))]} :
       /\ storage' = StorageAfterSet(items)
       /\ storageEvents' = EventsAfterSet(items, "content")
  /\ UNCHANGED << state, hasInitialized, initPromise, storedState, initCallers,
                  hydrationReads, updateChain, nextId, applied, broadcasts,
                  fallback, stateReads, gateActive, intentGate,
                  stateDeltaSubscribers, now, lastOp, observed, exercise, breakReminder >>

\* chrome terminates the idle service worker (no event waits for it); the
\* next event evaluates the modules again: let state = getDefaultState(),
\* let initPromise = null, let hasInitialized = false
Restart ==
  /\ hasInitialized
  /\ initPromise = "null"
  /\ updateChain = <<>>
  /\ storageEvents = <<>>
  /\ budget.restarts > 0
  /\ budget' = [budget EXCEPT !.restarts = @ - 1]
  /\ state' = getDefaultState
  /\ hasInitialized' = FALSE
  /\ storedState' = EmptyObject
  /\ initCallers' = EmptyObject
  /\ hydrationReads' = 0
  /\ stateReads' = {}
  /\ gateActive' = FALSE
  /\ stateDeltaSubscribers' = SubscribersOf(EmptyObject)
  /\ observed' = [observed EXCEPT !.set = EmptyObject]
  /\ UNCHANGED << initPromise, updateChain, nextId, applied, storage,
                  storageEvents, broadcasts, fallback, intentGate, now, lastOp, exercise, breakReminder >>

MaxRestarts == 1
MaxColdFallbacks == 1
MaxZenToggles == 1

\* the handler whose event wakes the worker
ColdHandlers == {"getState"}

InitCold ==
  /\ ModuleLoaded
  /\ storage \in HydrationStores
  /\ budget = [updates |-> 0, fallbacks |-> MaxColdFallbacks,
               writes |-> MaxZenToggles, restarts |-> MaxRestarts]

NextCold ==
  \/ \E h \in ColdHandlers : HandlerCall(h)
  \/ HydrationStep
  \/ ChainStep
  \/ \E payload \in FallbackPayloads : FallbackRead(payload)
  \/ FallbackWrite
  \/ toggleChatgptZenMode
  \/ Restart

SpecCold == InitCold /\ [][NextCold]_vars

\* the keys of the model's stores that belong to a preserved feature class:
\* the reason log, the keys prefixed intentGateTab_ or intentGatePending_
FeatureKeys == {"intentGateReasonLog", "intentGateTab_7", "intentGatePending_7"}
Preserved(key) == key \in DOMAIN DEFAULT_STATE \/ key \in FeatureKeys

\* steps of ensureInitialized: its read returns, it completes
ReadReturns == initPromise = "get" /\ initPromise' # "get"
Completes == ~hasInitialized /\ hasInitialized'

KeysToWrite(raw) ==
  LET sanitized == sanitizeStoredState(raw)
  IN { key \in DOMAIN DEFAULT_STATE :
         key \notin DOMAIN raw \/ raw[key] # sanitized[key] }

\* those keys with their sanitized values
ItemsToWrite(raw) ==
  LET sanitized == sanitizeStoredState(raw)
  IN [key \in KeysToWrite(raw) |-> sanitized[key]]

\* what ensureInitialized read, in a step that ends its processing
RawRead == IF initPromise = "get" THEN storage ELSE storedState

\* C30: when hydration sets storage, it sets exactly the schema keys whose
\* raw value is absent or differs from the sanitized value, to the
\* sanitized value, and it sets nothing when there is no such key; when it
\* completes and every stored schema value is the one it read or the one it
\* set, every schema key's stored value equals the in-memory value; and a
\* cold start that reads the store as the previous hydration left it
\* completes in that step without a write, a removal or a storage event.
C30_HydrationWritesOnlyDelta ==
  [][ /\ (initPromise # "set" /\ initPromise' = "set") =>
           /\ KeysToWrite(storedState') # {}
           /\ observed'.set = ItemsToWrite(storedState')
           /\ storage' = Merge(storage, observed'.set)
      /\ (Completes /\ initPromise # "set") =>
           /\ KeysToWrite(RawRead) = {}
           /\ observed'.set = EmptyObject
           /\ storage' = storage
      /\ ( /\ Completes
           /\ \A key \in DOMAIN DEFAULT_STATE :
                \/ key \in DOMAIN storage /\ key \in DOMAIN observed'.set
                     /\ storage[key] = observed'.set[key]
                \/ key \in DOMAIN storage /\ key \in DOMAIN RawRead
                     /\ storage[key] = RawRead[key] )
           => \A key \in DOMAIN DEFAULT_STATE :
                key \in DOMAIN storage' /\ storage'[key] = state'[key]
      /\ (ReadReturns /\ observed.left # Undef /\ storage = observed.left) =>
           /\ Completes
           /\ storage' = storage
           /\ storageEvents' = storageEvents ]_vars

(***************************************************************************)
(* computeNextState as a frame: what a patch may and may not change        *)
(***************************************************************************)
\* One field of a patch: a schema key with a well-typed, a mistyped, an
\* out-of-range or a null value, or a key outside the schema.
FrameFields ==
  { <<"currentTask", Str(TaskA)>>, <<"currentTask", Str(<<>>)>>,
    <<"currentTask", Num(1)>>,
    <<"isInFlow", Bool(TRUE)>>, <<"isInFlow", Bool(FALSE)>>,
    <<"isInFlow", Str(<<"y">>)>>,
    <<"breakReminderEnabled", Null>>,
    <<"exerciseReminderEnabled", Bool(TRUE)>>, <<"exerciseReminderEnabled", Num(1)>>,
    <<"reminderInterval", Num(MIN_INTERVAL_MS)>>,
    <<"reminderInterval", Num(MIN_INTERVAL_MS - 1)>>,
    <<"exerciseIntervalMs", Num(MAX_INTERVAL_MS)>>,
    <<"exerciseIntervalMs", Num(MAX_INTERVAL_MS + 1)>>,
    <<"exerciseIntervalMs", Null>>,
    <<"exerciseExpectedAt", NaN>>,
    <<"exerciseStatsDate", Num(1)>>,
    <<"exerciseStatsPushUps", Num(3)>>, <<"exerciseStatsPushUps", Num(0 - 5)>>,
    <<"exerciseStatsPushUps", Null>>, <<"exerciseStatsPushUps", Str(<<"y">>)>>,
    <<"distractingSites", UserSites.distractingSites>>,
    <<"distractingSites", Str(<<"x", ".", "c", "o", "m">>)>>,
    <<"legacyKey", Bool(TRUE)>> }

\* the object literal { [a[1]]: a[2], [b[1]]: b[2] }
PatchOf(a, b) == Merge((a[1] :> a[2]), (b[1] :> b[2]))

\* fields that travel with another field in the two-field patches
Companions ==
  { <<"currentTask", Str(<<>>)>>, <<"isInFlow", Str(<<"y">>)>>,
    <<"legacyKey", Bool(TRUE)>> }

\* Patches of no field, of one field and of two fields
FramePatches ==
  {EmptyObject} \cup {PatchOf(a, a) : a \in FrameFields}
    \cup {PatchOf(a, b) : a \in FrameFields, b \in Companions}

FrameUpdate ==
  /\ \E updates \in FramePatches :
       /\ state' = computeNextState(state, updates)
       /\ lastOp' = [op |-> "computeNextState", input |-> updates, prev |-> state]
  /\ RuntimeUntouched

FrameNext == CoreSanitize \/ FrameUpdate

SpecFrame == CoreInit /\ [][FrameNext]_vars

\* keys that invariant enforcement may change
InvariantKeys ==
  {"isInFlow", "breakReminderEnabled", "reminderStartTime", "reminderInterval",
   "reminderExpectedEndTime", "exerciseIntervalMs"}
BooleanKeys ==
  {"isInFlow", "intentGateEnabled", "breakReminderEnabled",
   "mindfulnessReminderEnabled", "hasSeenOnboarding", "exerciseReminderEnabled"}
IntervalKeys == {"reminderInterval", "exerciseIntervalMs"}
CounterKeys == {"exerciseStatsPushUps", "exerciseStatsSitUps", "exerciseStatsSquats"}
ListKeys == {"distractingSites", "deepWorkBlockedSites"}

\* value has the type of the field key (null where the field is nullable)
WellTyped(key, value) ==
  CASE key \in BooleanKeys -> IsBoolean(value)
    [] key \in {"currentTask", "exerciseStatsDate"} -> IsString(value)
    [] key \in ListKeys -> IsArray(value)
    [] key \in CounterKeys -> IsFiniteNumber(value)
    [] OTHER -> value = Null \/ IsFiniteNumber(value)

\* value lies in the range of the field key
InRange(key, value) ==
  CASE key \in IntervalKeys ->
         value = Null \/ (value.v >= MIN_INTERVAL_MS /\ value.v <= MAX_INTERVAL_MS)
    [] key \in CounterKeys -> value.v >= 0
    [] OTHER -> TRUE

\* the patch field key holds a mistyped or out-of-range value
RefusedValue(p, key) == ~WellTyped(key, p[key]) \/ ~InRange(key, p[key])

\* the patch field key holds a negative exercise counter
NegativeCount(p, key) ==
  key \in CounterKeys /\ IsFiniteNumber(p[key]) /\ p[key].v < 0

\* the object p without the key
Without(p, key) == [k \in DOMAIN p \ {key} |-> p[k]]

\* lastOp and state are a call computeNextState(s, p) and its result
FrameStep == lastOp.op = "computeNextState"

\* Only keys of the patch and keys of invariant enforcement change, and no
\* key outside the schema is added.
FrameKept(s, p, next) ==
  /\ DOMAIN next = STATE_KEYS
  /\ \A key \in STATE_KEYS :
       next[key] # s[key] => key \in DOMAIN p \/ key \in InvariantKeys

\* A refused field is as if the patch did not carry it; outside the keys of
\* invariant enforcement it stays at its current value.
RefusedKept(s, p, next, key) ==
  /\ next = computeNextState(s, Without(p, key))
  /\ key \notin InvariantKeys => next[key] = s[key]

\* C31 as stated: computeNextState(s, p) differs from s only on keys of p and
\* on the keys of invariant enforcement, every patch field holding a mistyped
\* or out-of-range value (a negative exercise counter included) leaves that
\* field at its current value, and keys outside the schema are not added.
C31_RefusedStaysCurrent ==
  FrameStep =>
    /\ FrameKept(lastOp.prev, lastOp.input, state)
    /\ \A key \in DOMAIN lastOp.input \cap STATE_KEYS :
         RefusedValue(lastOp.input, key) =>
           RefusedKept(lastOp.prev, lastOp.input, state, key)

\* C31, amended: computeNextState(s, p) differs from s only on keys of p and
\* on the keys of invariant enforcement; a patch field holding a mistyped or
\* out-of-range value leaves that field at its current value, except that a
\* negative exercise counter is stored as 0; keys outside the schema are not
\* added.
C31_FrameOfPatch ==
  FrameStep =>
    /\ FrameKept(lastOp.prev, lastOp.input, state)
    /\ \A key \in DOMAIN lastOp.input \cap STATE_KEYS :
         /\ (RefusedValue(lastOp.input, key) /\ ~NegativeCount(lastOp.input, key)) =>
              RefusedKept(lastOp.prev, lastOp.input, state, key)
         /\ NegativeCount(lastOp.input, key) => state[key] = Num(0)

\* A running session with 3 push-ups counted received a patch with a
\* mistyped isInFlow and a negative push-up count: the session goes on and
\* the count is 0.
C31_Witness ==
  /\ FrameStep
  /\ InFlow(lastOp.prev)
  /\ lastOp.prev.exerciseStatsPushUps = Num(3)
  /\ lastOp.input = PatchOf(<<"exerciseStatsPushUps", Num(0 - 5)>>,
                            <<"isInFlow", Str(<<"y">>)>>)
  /\ InFlow(state)
  /\ state = [lastOp.prev EXCEPT !.exerciseStatsPushUps = Num(0)]

(***************************************************************************)
(* The site lists of the states sanitizeStoredState and computeNextState   *)
(* produce                                                                 *)
(***************************************************************************)
\* Arrays found under distractingSites or deepWorkBlockedSites: URLs of one
\* site, an unsorted list with a repeated entry, entries that are no
\* hostname, no entry.
SiteValues ==
  { StrList(<< <<"h","t","t","p","s",":","/","/","W","W","W",".","X",".","C","O","M","/","p","?","q","=","1">>,
               <<"x",".","c","o","m">>, <<"w","w","w",".","x",".","c","o","m">> >>),
    StrList(<< <<"b",".","c","o">>, <<" ","a",".","c","o","#","f">>, <<"b",".","c","o">> >>),
    Arr(<< Num(1), Str(<<>>), Str(<<"n","o","d","o","t">>), Str(<<".","a",".","c","o">>),
           Str(<<"a",".","c","o",".">>), Str(<<"a",".",".","c","o">>),
           Str(<<"a"," ","b",".","c","o">>), Str(<<"a","_","b",".","c","o">>), Null,
           Str(<<"o","k",".","c","o">>) >>),
    Arr(<<>>) }

\* site lists that are no array
NoLists ==
  [distractingSites |-> Str(<<"x",".","c","o","m">>), deepWorkBlockedSites |-> Null]

\* chrome.storage.local with and without stored site lists
SiteStores ==
  {EmptyObject, NoLists}
    \cup {[distractingSites |-> d] : d \in SiteValues}
    \cup {[deepWorkBlockedSites |-> w, currentTask |-> Str(TaskA),
           isInFlow |-> Bool(TRUE)] : w \in SiteValues}

\* updates of the site lists, and the start of a session
SitePatches ==
  {[distractingSites |-> d] : d \in SiteValues}
    \cup {[deepWorkBlockedSites |-> w] : w \in SiteValues}
    \cup {NoLists, [currentTask |-> Str(TaskA), isInFlow |-> Bool(TRUE)]}

SitesSanitize ==
  /\ \E raw \in SiteStores :
       /\ state' = sanitizeStoredState(raw)
       /\ lastOp' = [op |-> "sanitizeStoredState", input |-> raw, prev |-> state]
  /\ RuntimeUntouched

SitesUpdate ==
  /\ \E updates \in SitePatches :
       /\ state' = computeNextState(state, updates)
       /\ lastOp' = [op |-> "computeNextState", input |-> updates, prev |-> state]
  /\ RuntimeUntouched

SitesNext == SitesSanitize \/ SitesUpdate

SpecSites == CoreInit /\ [][SitesNext]_vars

\* state was produced by sanitizeStoredState or computeNextState
Produced == lastOp.op \in {"sanitizeStoredState", "computeNextState"}

\* a lowercase hostname: letters, digits, dots and hyphens only (so no scheme,
\* path, query or fragment), with a dot, and no leading, trailing or doubled dot
NormalHostname(h) ==
  /\ h # <<>>
  /\ \A i \in DOMAIN h : h[i] \in Range(LowerLetters) \cup Range(Digits) \cup {".", "-"}
  /\ \E i \in DOMAIN h : h[i] = "."
  /\ h[1] # "." /\ h[Len(h)] # "."
  /\ \A i \in 1..(Len(h) - 1) : ~(h[i] = "." /\ h[i + 1] = ".")

\* at most 200 entries, all of them normalized hostnames, none twice
CappedHostnames(sites) ==
  /\ IsArray(sites)
  /\ Len(sites.v) <= MAX_SITE_LIST_ITEMS
  /\ \A i \in DOMAIN sites.v : IsString(sites.v[i]) /\ NormalHostname(sites.v[i].v)
  /\ \A i, j \in DOMAIN sites.v : sites.v[i] = sites.v[j] => i = j

\* each entry is less than the one after it
Ascending(sites) ==
  \A i \in 1..(Len(sites.v) - 1) : StrLess(sites.v[i].v, sites.v[i + 1].v)

\* the list the input held under key, when the call was given one
GivenList(key) ==
  IF key \in DOMAIN lastOp.input /\ IsArray(lastOp.input[key])
    THEN lastOp.input[key].v ELSE <<>>

\* the list lost the leading 'www.' of the entries given with one
WwwRemoved(key) ==
  \A i \in DOMAIN GivenList(key) :
    LET r == GivenList(key)[i] IN
    (IsString(r) /\ Len(r.v) > 4 /\ SubSeq(r.v, 1, 4) = <<"w","w","w",".">>
       /\ NormalHostname(SubSeq(r.v, 5, Len(r.v)))
       /\ Len(GivenList(key)) <= MAX_SITE_LIST_ITEMS) =>
      /\ Str(SubSeq(r.v, 5, Len(r.v))) \in Range(state[key].v)
      /\ r \notin Range(state[key].v)

\* C32: in every state produced by sanitizeStoredState or computeNextState,
\* distractingSites and deepWorkBlockedSites each hold at most 200 entries,
\* no entry twice, in ascending order, all of them lowercase hostnames
\* without scheme, path, query, fragment and leading 'www.', with a dot and
\* no leading, trailing or doubled dot; entries that cannot be normalized
\* are dropped and the call still returns a state.
C32_SiteListsNormalized ==
  Produced =>
    \A key \in ListKeys :
      /\ CappedHostnames(state[key])
      /\ Ascending(state[key])
      /\ WwwRemoved(key)

(***************************************************************************)
(* background_exerciseReminder.js: the exercise schedule and the counters  *)
(***************************************************************************)
EXERCISE_INTERVAL_DEFAULT_MS == 45 * 60 * 1000
DAY_MS == 24 * 60 * 60 * 1000

\* todayKey(): YYYY-MM-DD of the day Date.now() lies in (the clock of the
\* runs stays within the first days of January 1970)
todayKey ==
  <<"1","9","7","0","-","0","1","-", Digits[(((now \div DAY_MS) + 1) \div 10) + 1],
    Digits[(((now \div DAY_MS) + 1) % 10) + 1]>>

\* clampPositiveInt(n); Math.floor is the identity on the integers of the runs
clampPositiveInt(n) == IF IsFiniteNumber(n) /\ n.v > 0 THEN n.v ELSE 0

\* counts?.pushUps
CountOf(counts, key) ==
  IF counts.t = "object" THEN Get(counts.v, key) ELSE Undef

\* isTrustedUiSender(sender)
isTrustedUiSender(sender) ==
  /\ sender.id = RuntimeId
  /\ \/ StartsWith(sender.url, ExtensionOrigin)
     \/ StartsWith(sender.tabUrl, ExtensionOrigin)

\* a handler of the module suspended at an await: s is what getState() gave
\* it, wait the id of the chained mutation it awaits, aux a value it keeps
ExerciseCall(fn, pc) ==
  [id |-> CHOOSE n \in 0..Cardinality(exercise.calls) :
            \A call \in exercise.calls : call.id # n,
   fn |-> fn, pc |-> pc, s |-> EmptyObject, wait |-> 0, aux |-> Null]

\* the promise of the chained mutation the handler awaits has resolved
Awaited(call) == \E r \in observed.resolved : r.id = call.wait

\* the continuation of a resolved await and the subscriber of a delta run
\* before any other event is handled
ExercisePending ==
  \/ exercise.init /\ exercise.seen < Len(broadcasts)
  \/ \E call \in exercise.calls :
       call.pc \in {"counts", "reschedule", "disabled", "snapshot", "resumed"}
         /\ Awaited(call)

\* What ensureExerciseSchedule() does from its call to its first await on a
\* real event, or to its return: pc is where it stands then ("return" when
\* it returned), updates the updateState call it made, alarm the exercise
\* alarm, gate the value of gateActive, aux the expectedAt it computed.
Scheduled(pc, updates, alarm, gate, aux) ==
  [pc |-> pc, updates |-> updates, alarm |-> alarm, gate |-> gate, aux |-> aux]

\* if (Date.now() >= expectedAt) startGateIfNeeded(); else clear and create
\* the alarm
ScheduleOrGate(expectedAt) ==
  IF now >= expectedAt
    THEN Scheduled("return", <<>>, exercise.alarm,
                   (gateActive \/ (Truthy(state.exerciseReminderEnabled)
                                     /\ ~Truthy(state.isInFlow))),
                   Null)
    ELSE Scheduled("return", <<>>, Num(expectedAt), gateActive, Null)

\* ensureExerciseSchedule() past the gate check, with the state s it read
ResumeSchedule(s) ==
  IF IsFiniteNumber(s.exerciseRemainingMs)
    THEN LET expectedAt ==
               now + (IF s.exerciseRemainingMs.v > 0 THEN s.exerciseRemainingMs.v ELSE 0)
         IN Scheduled("resumed",
                      << [exerciseExpectedAt |-> Num(expectedAt),
                          exerciseRemainingMs |-> Null] >>,
                      exercise.alarm, gateActive, Num(expectedAt))
  ELSE IF IsFiniteNumber(s.exerciseExpectedAt)
    THEN ScheduleOrGate(s.exerciseExpectedAt.v)
  ELSE LET interval == IF IsFiniteNumber(s.exerciseIntervalMs)
                         THEN s.exerciseIntervalMs.v
                         ELSE EXERCISE_INTERVAL_DEFAULT_MS
       IN Scheduled("resumed",
                    << [exerciseIntervalMs |-> Num(interval),
                        exerciseExpectedAt |-> Num(now + interval)] >>,
                    exercise.alarm, gateActive, Num(now + interval))

\* ensureExerciseSchedule() from its call
ensureExerciseSchedule ==
  LET s == state IN
  IF ~Truthy(s.exerciseReminderEnabled)
    THEN Scheduled("disabled",
                   << [exerciseExpectedAt |-> Null, exerciseRemainingMs |-> Null] >>,
                   Null, gateActive, Null)
  ELSE IF Truthy(s.isInFlow)
    THEN IF ~IsFiniteNumber(s.exerciseRemainingMs)
           THEN IF IsFiniteNumber(s.exerciseExpectedAt)
                  THEN Scheduled("snapshot",
                                 << [exerciseRemainingMs |->
                                       Num(IF s.exerciseExpectedAt.v - now > 0
                                             THEN s.exerciseExpectedAt.v - now
                                             ELSE 0)] >>,
                                 exercise.alarm, gateActive, Null)
                  ELSE Scheduled("snapshot",
                                 << [exerciseRemainingMs |->
                                       Num(EXERCISE_INTERVAL_DEFAULT_MS)] >>,
                                 exercise.alarm, gateActive, Null)
           ELSE Scheduled("return", <<>>, Null, gateActive, Null)
  ELSE IF gateActive
    THEN Scheduled("return", <<>>, Null, TRUE, Null)
  ELSE Scheduled("isGateTabOpen", <<>>, exercise.alarm, gateActive, Null)

\* the place in `applied` of the latest mutation that started a session
LastStart ==
  IF \E i \in DOMAIN applied : applied[i] \in exercise.starts
    THEN CHOOSE i \in DOMAIN applied :
           /\ applied[i] \in exercise.starts
           /\ \A j \in DOMAIN applied : applied[j] \in exercise.starts => j <= i
    ELSE 0

\* the handler `call` goes on as `to` says: it chains the update, sets the
\* alarm and gateActive, and stands at to.pc or returns; tab tells whether a
\* gate tab was open before.
Proceeds(call, to, calls, seen, tab) ==
  /\ updateChain' =
       AppendCalls(updateChain,
                   [k \in DOMAIN to.updates |->
                      [origin |-> call.fn, updates |-> to.updates[k]]])
  /\ nextId' = nextId + Len(to.updates)
  /\ gateActive' = to.gate
  /\ exercise' =
       [exercise EXCEPT
          !.init = TRUE,
          !.seen = seen,
          !.alarm = to.alarm,
          !.tab = IF to.gate /\ ~gateActive THEN TRUE ELSE tab,
          !.snapshot =
            IF to.pc = "snapshot"
              THEN [ms |-> to.updates[1].exerciseRemainingMs.v, at |-> Len(applied)]
              ELSE @,
          !.resumed =
            IF to.pc = "resumed" /\ "exerciseRemainingMs" \in DOMAIN to.updates[1]
              THEN [ms |-> to.aux.v - now, snapshot |-> exercise.snapshot,
                    started |-> LastStart]
              ELSE @,
          !.calls =
            IF to.pc = "return" THEN calls \ {call}
            ELSE (calls \ {call}) \cup
                   {[call EXCEPT !.pc = to.pc, !.wait = nextId, !.aux = to.aux,
                                 !.s = IF to.pc = "isGateTabOpen" THEN state ELSE @]}]

ExerciseUnchanged ==
  UNCHANGED << state, hasInitialized, initPromise, storedState, initCallers,
               hydrationReads, applied, storage, storageEvents, broadcasts,
               fallback, stateReads, intentGate, stateDeltaSubscribers, now,
               lastOp, breakReminder >>

\* initExerciseReminder(): the listeners are set up and, the state being
\* hydrated, ensureExerciseSchedule() is called
initExerciseReminder ==
  /\ hasInitialized
  /\ ~exercise.init
  /\ ~MicrotasksPending
  /\ \E call \in {ExerciseCall("initExerciseReminder", "called")} :
       \E to \in {ensureExerciseSchedule} :
         Proceeds(call, to, exercise.calls \cup {call}, Len(broadcasts), exercise.tab)
  /\ UNCHANGED << budget, observed >>
  /\ ExerciseUnchanged

\* the delta is one handleStateUpdated acts on
RelevantDelta(delta) ==
  DOMAIN delta \cap {"exerciseReminderEnabled", "isInFlow", "exerciseExpectedAt",
                     "exerciseRemainingMs", "exerciseIntervalMs"} # {}

\* handleStateUpdated(delta) for the next delta of the runtime: a delta that
\* turns Deep Work on starts stopGate(), any other relevant delta calls
\* ensureExerciseSchedule() at once
ExerciseStateUpdated ==
  /\ exercise.init
  /\ exercise.seen < Len(broadcasts)
  /\ \E delta \in {broadcasts[exercise.seen + 1].delta} :
       \E call \in {ExerciseCall("handleStateUpdated", "called")} :
         IF ~RelevantDelta(delta)
           THEN /\ exercise' = [exercise EXCEPT !.seen = @ + 1]
                /\ UNCHANGED << updateChain, nextId, gateActive >>
         ELSE IF "isInFlow" \in DOMAIN delta /\ Truthy(delta.isInFlow)
           THEN /\ exercise' =
                     [exercise EXCEPT
                        !.seen = @ + 1,
                        !.alarm = Null,
                        !.calls = @ \cup {[call EXCEPT !.pc = "stopGate"]}]
                /\ gateActive' = FALSE
                /\ UNCHANGED << updateChain, nextId >>
         ELSE \E to \in {ensureExerciseSchedule} :
                Proceeds(call, to, exercise.calls \cup {call}, exercise.seen + 1,
                         exercise.tab)
  /\ UNCHANGED << budget, observed >>
  /\ ExerciseUnchanged

\* stopGate() of handleStateUpdated has closed the gate tabs:
\* ensureExerciseSchedule() is called
StopGateDone(call) ==
  /\ call.fn = "handleStateUpdated"
  /\ call.pc = "stopGate"
  /\ ~MicrotasksPending
  /\ ~ExercisePending
  /\ \E to \in {ensureExerciseSchedule} :
       Proceeds(call, to, exercise.calls, exercise.seen, FALSE)
  /\ UNCHANGED << budget, observed >>
  /\ ExerciseUnchanged

\* chrome.tabs.query of isGateTabOpen() has answered
GateTabQueried(call) ==
  /\ call.pc = "isGateTabOpen"
  /\ ~MicrotasksPending
  /\ ~ExercisePending
  /\ \E to \in {IF exercise.tab
                  THEN Scheduled("return", <<>>, Null, TRUE, Null)
                  ELSE ResumeSchedule(call.s)} :
       Proceeds(call, to, exercise.calls, exercise.seen, exercise.tab)
  /\ UNCHANGED << budget, observed >>
  /\ ExerciseUnchanged

ScheduleContinues_SnapshotHangs(call) ==
  /\ call.pc \in {"disabled", "resumed"}
  /\ Awaited(call)
  /\ \E to \in {IF call.pc = "disabled"
                  THEN Scheduled("return", <<>>, exercise.alarm, gateActive, Null)
                  ELSE ScheduleOrGate(call.aux.v)} :
       Proceeds(call, to, exercise.calls, exercise.seen, exercise.tab)
  /\ UNCHANGED << budget, observed >>
  /\ ExerciseUnchanged
\* the updateState that ensureExerciseSchedule() awaited has resolved
ScheduleContinues(call) ==
  /\ call.pc \in {"disabled", "snapshot", "resumed"}
  /\ Awaited(call)
  /\ \E to \in {CASE call.pc = "disabled" ->
                       Scheduled("return", <<>>, exercise.alarm, gateActive, Null)
                  [] call.pc = "snapshot" ->
                       Scheduled("return", <<>>, Null, gateActive, Null)
                  [] call.pc = "resumed" -> ScheduleOrGate(call.aux.v)} :
       Proceeds(call, to, exercise.calls, exercise.seen, exercise.tab)
  /\ UNCHANGED << budget, observed >>
  /\ ExerciseUnchanged

\* nothing is in flight: no chained mutation, no storage event, no handler
ExerciseQuiescent ==
  /\ exercise.init
  /\ updateChain = <<>>
  /\ storageEvents = <<>>
  /\ exercise.calls = {}
  /\ exercise.seen = Len(broadcasts)

\* chrome.alarms.onAlarm for the exercise alarm, due now
ExerciseAlarm ==
  /\ exercise.init
  /\ exercise.alarm # Null
  /\ now >= exercise.alarm.v
  /\ ~MicrotasksPending
  /\ ~ExercisePending
  /\ exercise' =
       [exercise EXCEPT
          !.alarm = Null,
          !.tab = @ \/ (Truthy(state.exerciseReminderEnabled) /\ ~Truthy(state.isInFlow))]
  /\ gateActive' =
       (gateActive \/ (Truthy(state.exerciseReminderEnabled) /\ ~Truthy(state.isInFlow)))
  /\ UNCHANGED << updateChain, nextId, budget, observed >>
  /\ ExerciseUnchanged

\* next of addExerciseCounts(counts) for the state s on the day `date`
CountsUpdate(s, date, counts) ==
  LET sameDay == StrictEq(s.exerciseStatsDate, Str(date))
      Base(key) == IF sameDay THEN clampPositiveInt(s[key]) ELSE 0
  IN [exerciseStatsDate |-> IF sameDay THEN s.exerciseStatsDate ELSE Str(date),
      exerciseStatsPushUps |->
        Num(Base("exerciseStatsPushUps") + clampPositiveInt(CountOf(counts, "pushUps"))),
      exerciseStatsSitUps |->
        Num(Base("exerciseStatsSitUps") + clampPositiveInt(CountOf(counts, "sitUps"))),
      exerciseStatsSquats |->
        Num(Base("exerciseStatsSquats") + clampPositiveInt(CountOf(counts, "squats")))]

\* push + sit + squat
Reps(counts) ==
  clampPositiveInt(CountOf(counts, "pushUps"))
    + clampPositiveInt(CountOf(counts, "sitUps"))
    + clampPositiveInt(CountOf(counts, "squats"))

\* the exerciseSubmit message on a hydrated runtime, up to the await of
\* addExerciseCounts(message.data): the sender is checked, the counts are
\* read against getState() and today's date, and the update is chained (a
\* refused message is answered and leaves nothing behind)
exerciseSubmit(sender, data) ==
  /\ hasInitialized
  /\ exercise.init
  /\ ~MicrotasksPending
  /\ ~ExercisePending
  /\ budget.submits > 0
  /\ IF ~isTrustedUiSender(sender) \/ Reps(data) <= 0
       THEN UNCHANGED << updateChain, nextId, exercise, observed, budget >>
       ELSE /\ budget' = [budget EXCEPT !.submits = @ - 1]
            /\ updateChain' =
                 AppendCalls(updateChain,
                             << [origin |-> "addExerciseCounts",
                                 updates |-> CountsUpdate(state, todayKey, data)] >>)
            /\ nextId' = nextId + 1
            /\ exercise' =
                 [exercise EXCEPT
                    !.calls = @ \cup {[ExerciseCall("exerciseSubmit", "counts")
                                         EXCEPT !.wait = nextId]}]
            /\ observed' =
                 [observed EXCEPT
                    !.accepted = Append(@, [date |-> todayKey,
                                            pushUps |-> clampPositiveInt(CountOf(data, "pushUps")),
                                            sitUps |-> clampPositiveInt(CountOf(data, "sitUps")),
                                            squats |-> clampPositiveInt(CountOf(data, "squats"))])]
  /\ UNCHANGED gateActive
  /\ ExerciseUnchanged

\* addExerciseCounts returned true: stopGate() clears the flag and the alarm
\* and closes the gate tabs
SubmitStopsGate(call) ==
  /\ call.fn = "exerciseSubmit"
  /\ call.pc = "counts"
  /\ Awaited(call)
  /\ gateActive' = FALSE
  /\ exercise' =
       [exercise EXCEPT
          !.alarm = Null,
          !.calls = (@ \ {call}) \cup {[call EXCEPT !.pc = "stopGate"]}]
  /\ UNCHANGED << updateChain, nextId, budget, observed >>
  /\ ExerciseUnchanged

\* stopGate() is done: the next reminder is put one interval from now
SubmitReschedules(call) ==
  /\ call.fn = "exerciseSubmit"
  /\ call.pc = "stopGate"
  /\ ~MicrotasksPending
  /\ ~ExercisePending
  /\ \E interval \in {IF IsFiniteNumber(state.exerciseIntervalMs)
                        THEN state.exerciseIntervalMs.v
                        ELSE EXERCISE_INTERVAL_DEFAULT_MS} :
       Proceeds(call,
                Scheduled("reschedule",
                          << [exerciseIntervalMs |-> Num(interval),
                              exerciseExpectedAt |-> Num(now + interval),
                              exerciseRemainingMs |-> Null] >>,
                          exercise.alarm, gateActive, Null),
                exercise.calls, exercise.seen, FALSE)
  /\ UNCHANGED << budget, observed >>
  /\ ExerciseUnchanged

\* the update of the submission has resolved: ensureExerciseSchedule()
SubmitEnsures(call) ==
  /\ call.fn = "exerciseSubmit"
  /\ call.pc = "reschedule"
  /\ Awaited(call)
  /\ \E to \in {ensureExerciseSchedule} :
       Proceeds(call, to, exercise.calls, exercise.seen, exercise.tab)
  /\ UNCHANGED << budget, observed >>
  /\ ExerciseUnchanged

(***************************************************************************)
(* SpecCounts: a hydrated runtime with the exercise reminder on; the gate  *)
(* page submits counts while the options page changes a setting, and the   *)
(* clock passes midnight.                                                  *)
(***************************************************************************)
MaxSubmits == 2
MaxCountsUpdates == 1
MaxDays == 1

\* the store of a day on which 3 push-ups were counted, the next reminder
\* being due in 45 minutes
ExerciseStores ==
  { Merge(UserSites,
          [exerciseReminderEnabled |-> Bool(TRUE),
           exerciseIntervalMs |-> Num(EXERCISE_INTERVAL_DEFAULT_MS),
           exerciseExpectedAt |-> Num(StartAt + EXERCISE_INTERVAL_DEFAULT_MS),
           exerciseStatsDate |-> Str(<<"1","9","7","0","-","0","1","-","0","1">>),
           exerciseStatsPushUps |-> Num(3)]) }

\* sender of the exerciseSubmit message: the gate page, a web page
ExerciseSenders ==
  { [id |-> RuntimeId, url |-> ExtensionOrigin \o <<"e">>, tabUrl |-> <<>>],
    [id |-> RuntimeId, url |-> <<"h","t","t","p","s",":","/","/","x">>,
     tabUrl |-> <<"h","t","t","p","s",":","/","/","x">>] }

\* message.data of exerciseSubmit
ExerciseCounts ==
  { Obj([pushUps |-> Num(5), sitUps |-> Num(0 - 2), squats |-> Num(2)]),
    Obj([pushUps |-> Num(0 - 3)]),
    Undef }

\* the options page turns the mindfulness reminder on
CountsPatches == { [mindfulnessReminderEnabled |-> Bool(TRUE)] }

\* the clock passes midnight while nothing is in flight
Midnight ==
  /\ now < MaxDays * DAY_MS
  /\ updateChain = <<>>
  /\ storageEvents = <<>>
  /\ now' = ((now \div DAY_MS) + 1) * DAY_MS
  /\ UNCHANGED << budget, updateChain, nextId, gateActive, exercise, observed,
                  state, hasInitialized, initPromise, storedState, initCallers,
                  hydrationReads, applied, storage, storageEvents, broadcasts,
                  fallback, stateReads, intentGate, stateDeltaSubscribers,
                  lastOp, breakReminder >>

InitCounts ==
  /\ \E store \in ExerciseStores : HydratedFrom(store)
  /\ intentGate = NoGate
  /\ stateDeltaSubscribers =
       onStateDelta(SubscribersOf(initCallers), Subscriber("exerciseReminder"))
  /\ budget = [updates |-> MaxCountsUpdates, fallbacks |-> 0, writes |-> 0,
               submits |-> MaxSubmits]

NextCounts ==
  \/ initExerciseReminder
  \/ \E sender \in ExerciseSenders, data \in ExerciseCounts : exerciseSubmit(sender, data)
  \/ ExerciseStateUpdated
  \/ \E call \in exercise.calls : GateTabQueried(call)
  \/ \E call \in exercise.calls : SubmitStopsGate(call)
  \/ \E call \in exercise.calls : SubmitReschedules(call)
  \/ \E call \in exercise.calls : SubmitEnsures(call)
  \/ ExerciseAlarm
  \/ ~ExercisePending /\ Midnight
  \/ ~ExercisePending /\ exercise.init
       /\ \E updates \in CountsPatches : UpdateStateCall(updates, "ui")
  \/ ~ExercisePending /\ ChainStep

SpecCounts == InitCounts /\ [][NextCounts]_vars

\* the stored date key
StoredDate(s) == IF IsString(s.exerciseStatsDate) THEN s.exerciseStatsDate.v ELSE <<>>

\* the date key the counters are kept for: that of the latest accepted
\* submission, or the hydrated one when none was accepted
CountedDate ==
  IF observed.accepted = <<>> THEN StoredDate(observed.hydrated)
  ELSE observed.accepted[Len(observed.accepted)].date

RECURSIVE SumOf(_, _, _)
\* the reps of kind `key` accepted on `date`
SumOf(accepted, date, key) ==
  IF accepted = <<>> THEN 0
  ELSE (IF Head(accepted).date = date THEN Head(accepted)[key] ELSE 0)
         + SumOf(Tail(accepted), date, key)

\* what was counted on CountedDate: the hydrated count if it was kept for
\* that date, and every submission accepted on it
Counted(stat, key) ==
  (IF StoredDate(observed.hydrated) = CountedDate
     THEN clampPositiveInt(observed.hydrated[stat]) ELSE 0)
    + SumOf(observed.accepted, CountedDate, key)

\* C33: once the accepted submissions, also those handled concurrently, are
\* applied, the stored date key is that of the latest accepted submission and
\* each of the three counters equals the sum of the reps accepted since the
\* date key changed to that date (a submission on a new date starts from
\* zero); the counters are never negative.
C33_CountersSumAccepted ==
  /\ \A stat \in CounterKeys : IsFiniteNumber(state[stat]) /\ state[stat].v >= 0
  /\ ExerciseQuiescent =>
       /\ StoredDate(state) = CountedDate
       /\ state.exerciseStatsPushUps = Num(Counted("exerciseStatsPushUps", "pushUps"))
       /\ state.exerciseStatsSitUps = Num(Counted("exerciseStatsSitUps", "sitUps"))
       /\ state.exerciseStatsSquats = Num(Counted("exerciseStatsSquats", "squats"))
       /\ \A key \in CounterKeys \cup {"exerciseStatsDate"} : storage[key] = state[key]

(***************************************************************************)
(* The pause of the exercise timer during Deep Work: the popup starts and  *)
(* ends sessions one after the other, also before the handlers of the      *)
(* earlier toggles have finished, while the clock moves on.                *)
(***************************************************************************)
MaxToggles == 3

\* the store of a session during which the exercise timer is paused, 44
\* minutes being left
PausedStores ==
  { Merge(UserSites,
          [currentTask |-> Str(TaskA),
           isInFlow |-> Bool(TRUE),
           exerciseReminderEnabled |-> Bool(TRUE),
           exerciseIntervalMs |-> Num(EXERCISE_INTERVAL_DEFAULT_MS),
           exerciseExpectedAt |-> Num(StartAt + EXERCISE_INTERVAL_DEFAULT_MS),
           exerciseRemainingMs |-> Num(EXERCISE_INTERVAL_DEFAULT_MS - TickMs)]) }
MaxPauseTicks == 1

\* a minute of the session passes while nothing is in flight
PauseTick ==
  /\ now < StartAt + 1 + MaxPauseTicks * TickMs
  /\ ExerciseQuiescent
  /\ Truthy(state.isInFlow)
  /\ now' = now + TickMs
  /\ UNCHANGED << budget, updateChain, nextId, gateActive, exercise, observed,
                  state, hasInitialized, initPromise, storedState, initCallers,
                  hydrationReads, applied, storage, storageEvents, broadcasts,
                  fallback, stateReads, intentGate, stateDeltaSubscribers,
                  lastOp, breakReminder >>

\* the popup ends the session if its last toggle started one or, being the
\* first, found one, and starts a session otherwise
TogglePatch ==
  IF (MaxToggles - budget.updates) % 2 = 0
    THEN [isInFlow |-> Bool(FALSE)]
    ELSE [currentTask |-> Str(TaskA), isInFlow |-> Bool(TRUE)]

\* updateState(patch) of the toggle, the storage events of the earlier
\* writes being delivered
Toggle ==
  /\ exercise.init
  /\ storageEvents = <<>>
  /\ budget.updates > 0
  /\ budget' = [budget EXCEPT !.updates = @ - 1]
  /\ updateChain' = Append(updateChain, ChainTask("updateState", "ui", TogglePatch))
  /\ nextId' = nextId + 1
  /\ exercise' =
       [exercise EXCEPT
          !.starts = IF Truthy(Get(TogglePatch, "isInFlow")) THEN @ \cup {nextId} ELSE @]
  /\ UNCHANGED << gateActive, observed >>
  /\ ExerciseUnchanged

InitPause ==
  /\ \E store \in PausedStores : HydratedFrom(store)
  /\ intentGate = NoGate
  /\ stateDeltaSubscribers =
       onStateDelta(SubscribersOf(initCallers), Subscriber("exerciseReminder"))
  /\ budget = [updates |-> MaxToggles, fallbacks |-> 0, writes |-> 0, submits |-> 0]

NextPause ==
  \/ initExerciseReminder
  \/ ExerciseStateUpdated
  \/ storageEvents = <<>> /\ \E call \in exercise.calls : StopGateDone(call)
  \/ storageEvents = <<>> /\ \E call \in exercise.calls : GateTabQueried(call)
  \/ \E call \in exercise.calls : ScheduleContinues(call)
  \/ ~ExercisePending /\ ~MicrotasksPending /\ Toggle
  \/ ~ExercisePending /\ PauseTick
  \/ ~ExercisePending /\ ChainStep

SpecPause == InitPause /\ [][NextPause]_vars

\* the snapshot the latest resume used is the latest one taken then, and it
\* was taken after the session that was the latest then had started
ResumedFresh ==
  /\ exercise.resumed.ms =
       (IF exercise.resumed.snapshot = NoSnapshot
          THEN observed.hydrated.exerciseRemainingMs.v
          ELSE exercise.resumed.snapshot.ms)
  /\ exercise.resumed.snapshot.at >= exercise.resumed.started

\* C34: once the system is quiescent, in a session exerciseRemainingMs holds
\* the snapshot taken for it; out of a session exerciseRemainingMs is null and
\* the timer, if it was resumed, was resumed from the snapshot taken at the
\* most recent session start, exerciseExpectedAt being the resume time plus
\* that snapshot; this also when the session is toggled in quick succession.
C34_PauseSnapshot ==
  ExerciseQuiescent =>
    IF Truthy(state.isInFlow)
      THEN state.exerciseRemainingMs =
             (IF exercise.snapshot = NoSnapshot
                THEN observed.hydrated.exerciseRemainingMs
                ELSE Num(exercise.snapshot.ms))
      ELSE /\ state.exerciseRemainingMs = Null
           /\ exercise.resumed # NoResume => ResumedFresh

(***************************************************************************)
(* The gate when it is turned off                                          *)
(***************************************************************************)
\* the step sends the tab to the intent gate page
RedirectsTab ==
  \/ intentGate'.tab = BlockUrl(GateTab) /\ intentGate.tab # BlockUrl(GateTab)
  \/ intentGate'.blocked # intentGate.blocked

\* C35: a step that sends a tab to the intent gate page (from
\* handleBeforeNavigate, from checkActiveTabForGate or from the handler of an
\* expiry alarm) is taken only while intentGateEnabled is true in the state.
C35_NoRedirectWhileDisabled ==
  [][ RedirectsTab => isIntentGateEnabled(state) ]_vars

(***************************************************************************)
(* The alarms and tickers of the break reminder                            *)
(* (background_breakReminder.js): handleStateUpdated taken step by step,   *)
(* with the alarms it creates and clears.                                  *)
(***************************************************************************)
\* a call of initializeBreakReminderIfEnabled() suspended at an await: wait
\* is the id of the chained mutation it awaits
BreakCall(pc, wait) ==
  [id |-> CHOOSE n \in 0..Cardinality(breakReminder.calls) :
            \A call \in breakReminder.calls : call.id # n,
   pc |-> pc, wait |-> wait]

\* the subscriber of a delta and the continuation of a resolved await run
\* before any other event is handled
BreakPending ==
  \/ breakReminder.seen < Len(broadcasts)
  \/ \E call \in breakReminder.calls : call.pc = "updateState" /\ Awaited(call)

\* stopBreakReminder(): both alarms are cleared, hasOffscreenBadgeTicker is
\* reset, the tickers are stopped
stopBreakReminder(br) ==
  [br EXCEPT !.alarms = {}, !.offscreen = FALSE, !.ticker = FALSE]

\* scheduleBreakReminderAlarms(expectedEndTime) up to the await of
\* ensureOffscreenDocument(): the end alarm is created
SchedulesEnd(br, call) ==
  [br EXCEPT !.alarms = @ \cup {BREAK_REMINDER_END_ALARM},
             !.calls = (@ \ {call}) \cup {[call EXCEPT !.pc = "ensureOffscreenDocument"]}]

BreakUnchanged ==
  UNCHANGED << state, hasInitialized, initPromise, storedState, initCallers,
               hydrationReads, applied, storage, storageEvents, broadcasts,
               fallback, stateReads, intentGate, stateDeltaSubscribers, now,
               lastOp, exercise, gateActive, budget, observed >>

\* handleStateUpdated(delta) for the next delta of the runtime, with
\* initializeBreakReminderIfEnabled() up to its first await
BreakStateUpdated ==
  /\ hasInitialized
  /\ breakReminder.seen < Len(broadcasts)
  /\ \E delta \in {broadcasts[breakReminder.seen + 1].delta} :
     \E br \in {[breakReminder EXCEPT !.seen = @ + 1]} :
       IF ~shouldSync(delta)
         THEN /\ breakReminder' = br
              /\ UNCHANGED << updateChain, nextId >>
       ELSE IF shouldStop(delta) \/ ~SessionValid(state)
         THEN /\ breakReminder' = stopBreakReminder(br)
              /\ UNCHANGED << updateChain, nextId >>
       ELSE \E calls \in {initializeBreakReminderIfEnabled(state)} :
              /\ updateChain' = AppendCalls(updateChain, calls)
              /\ nextId' = nextId + Len(calls)
              /\ breakReminder' =
                   IF now >= ExpectedEndTimeOf(state).v THEN br
                   ELSE IF calls # <<>>
                     THEN [br EXCEPT !.calls = @ \cup {BreakCall("updateState", nextId)}]
                   ELSE SchedulesEnd(br, BreakCall("called", 0))
  /\ BreakUnchanged

\* initializeBreakReminderIfEnabled() after its updateState: the state is
\* read again; the alarms are scheduled if the session is still on
BreakTimerStored(call) ==
  /\ call.pc = "updateState"
  /\ Awaited(call)
  /\ breakReminder' =
       IF ~SessionValid(state)
         THEN [stopBreakReminder(breakReminder) EXCEPT !.calls = @ \ {call}]
         ELSE SchedulesEnd(breakReminder, call)
  /\ UNCHANGED << updateChain, nextId >>
  /\ BreakUnchanged

\* scheduleNextBadgeTickAlarm(): the one-shot badge alarm of a running
\* session
NextBadgeTick(alarms) ==
  IF SessionValid(state) /\ now < ExpectedEndTimeOf(state).v
    THEN alarms \cup {BREAK_REMINDER_BADGE_ALARM}
    ELSE alarms

\* scheduleBreakReminderAlarms after ensureOffscreenDocument() answered
\* `has`: with an offscreen document the periodic badge alarm is created;
\* without one the service-worker ticker is kicked (it goes on ticking only
\* while a session runs) and the next one-shot badge alarm is scheduled
OffscreenAnswered(call, has) ==
  /\ call.pc = "ensureOffscreenDocument"
  /\ ~MicrotasksPending
  /\ ~BreakPending
  /\ breakReminder' =
       [breakReminder EXCEPT
          !.offscreen = has,
          !.alarms = IF has THEN @ \cup {BREAK_REMINDER_BADGE_ALARM}
                     ELSE NextBadgeTick(@),
          !.ticker = IF has THEN @ ELSE (@ \/ SessionValid(state)),
          !.calls = @ \ {call}]
  /\ UNCHANGED << updateChain, nextId >>
  /\ BreakUnchanged

\* the timeout of the service-worker ticker fires: tick() goes on only
\* while a session runs and no offscreen document ticks
SwTickerFires ==
  /\ breakReminder.ticker
  /\ ~MicrotasksPending
  /\ ~BreakPending
  /\ \E calls \in {IF SessionValid(state) /\ now >= ExpectedEndTimeOf(state).v
                     THEN handleBreakReminderEnd(state) ELSE <<>>} :
       /\ calls # <<>> => PendingEnds < MaxPendingEnds
       /\ updateChain' = AppendCalls(updateChain, calls)
       /\ nextId' = nextId + Len(calls)
       /\ breakReminder' =
            [breakReminder EXCEPT
               !.ticker = SessionValid(state) /\ calls = <<>> /\ ~breakReminder.offscreen]
  /\ BreakUnchanged

(***************************************************************************)
(* SpecAlarms: on a hydrated runtime the popup starts and stops sessions   *)
(* while the break reminder schedules its alarms.                          *)
(***************************************************************************)
MaxAlarmUpdates == 2

\* the popup starts a session with the timer, and stops it
AlarmPatches ==
  { [currentTask |-> Str(TaskA), isInFlow |-> Bool(TRUE),
     breakReminderEnabled |-> Bool(TRUE)],
    [isInFlow |-> Bool(FALSE)] }

InitAlarms ==
  /\ \E store \in {UserSites} : HydratedFrom(store)
  /\ intentGate = NoGate
  /\ stateDeltaSubscribers = onStateDelta(<<>>, Subscriber("handleStateUpdated"))
  /\ budget = [updates |-> MaxAlarmUpdates, fallbacks |-> 0, writes |-> 0]

NextAlarms ==
  \/ BreakStateUpdated
  \/ \E call \in breakReminder.calls : BreakTimerStored(call)
  \/ \E call \in breakReminder.calls, has \in BOOLEAN : OffscreenAnswered(call, has)
  \/ SwTickerFires
  \/ ~BreakPending /\ ~MicrotasksPending
       /\ \E updates \in AlarmPatches :
            UpdateStateCall(updates, "ui") /\ UNCHANGED breakReminder
  \/ ~BreakPending /\ ChainStep

SpecAlarms == InitAlarms /\ [][NextAlarms]_vars

\* no mutation, storage event or handler of the break reminder is in flight
BreakQuiescent ==
  /\ updateChain = <<>>
  /\ storageEvents = <<>>
  /\ breakReminder.calls = {}
  /\ breakReminder.seen = Len(broadcasts)

\* C36: when no session is active and nothing of the break reminder is in
\* flight any more, neither the end alarm nor the badge alarm is scheduled
\* and no ticker runs, also when the session was stopped while
\* scheduleBreakReminderAlarms awaited the offscreen document.
C36_NoAlarmWithoutSession ==
  (BreakQuiescent /\ ~SessionValid(state)) =>
    /\ breakReminder.alarms = {}
    /\ ~breakReminder.ticker


(***************************************************************************)
(* SpecExpiry: a hydrated runtime with a running session whose end the     *)
(* clock reaches; the end alarm fires and tickers tick while the popup     *)
(* restarts the session or changes it.                                     *)
(***************************************************************************)
MaxExpiryUpdates == 2

\* message.data of the popup's resetBreakReminder
ExpiryData == { [task |-> Str(<<" ", "B", " ">>)] }

InitExpiry ==
  /\ \E store \in StoresChain : HydratedFrom(store)
  /\ intentGate = NoGate
  /\ stateDeltaSubscribers = SubscribersOf(initCallers)
  /\ budget = [updates |-> MaxExpiryUpdates, fallbacks |-> 0, writes |-> 0]

NextExpiry ==
  \/ Tick
  \/ \E data \in ExpiryData : resetBreakReminder(data)
  \/ \E updates \in TimerUiPatches : UpdateStateCall(updates, "ui")
  \/ EndAlarmOrProbe
  \/ ChainStep

SpecExpiry == InitExpiry /\ [][NextExpiry]_vars

\* C37: the step that applies the clearing mutation of handleBreakReminderEnd
\* finds either no session in the state or a session whose expected end
\* time has passed; a detection made on a state read before a queued
\* (re)start took effect never clears the session that restart began.
C37_EndsOnlyExpiredSession ==
  [][ \A i \in DOMAIN updateChain :
        ( /\ updateChain[i].origin = "handleBreakReminderEnd"
          /\ applied' = Append(applied, updateChain[i].id)
          /\ SessionValid(state) )
        => ( /\ expectedEndTime(state) # Null
             /\ now >= expectedEndTime(state).v ) ]_vars


(***************************************************************************)
(* SpecThrow: SpecChain on a runtime whose chrome.storage.local.set can    *)
(* throw, so that the catch of updateState runs.                           *)
(***************************************************************************)
\* an updateState task runs and its chrome.storage.local.set throws: the
\* executor of the awaited promise throws, the promise rejects, the task
\* rejects after state = nextState, and the catch returns false; nothing is
\* stored, notified or broadcast
ApplyTaskSetThrows(i) ==
  /\ i \in DOMAIN updateChain
  /\ CanStart(i)
  /\ Startable(i)
  /\ hasInitialized
  /\ updateChain[i].kind = "updateState"
  /\ \E nextState \in {computeNextState(state, updateChain[i].updates)} :
       /\ ~IsEmptyObject(diffState(state, nextState))
       /\ state' = nextState
  /\ updateChain' = RemoveAt(updateChain, i)
  /\ applied' = Append(applied, updateChain[i].id)
  /\ observed' = [Resolved(updateChain[i], FALSE) EXCEPT
                    !.failed = @ \cup {updateChain[i].id}]
  /\ UNCHANGED << hasInitialized, initPromise, storedState, initCallers,
                  hydrationReads, nextId, storage, storageEvents, broadcasts,
                  fallback, budget, stateReads, gateActive, intentGate,
                  stateDeltaSubscribers, now, lastOp, exercise, breakReminder >>

NextThrow ==
  \/ NextChain
  \/ \E i \in DOMAIN updateChain : ApplyTaskSetThrows(i)

SpecThrow == InitChain /\ [][NextThrow]_vars

\* C38: the step in which an updateState call resolves false because its
\* persistence step failed leaves the in-memory state as the mutation found
\* it: the state holds no change that was neither persisted nor announced
\* to the subscribers.
C38_FailedUpdateLeavesState ==
  [][ \A r \in observed'.resolved \ observed.resolved :
        (~r.result /\ r.id \in observed'.failed) => state' = state ]_vars


(***************************************************************************)
(* SpecQuiet: one update from outside reaches a hydrated runtime whose     *)
(* subscribers (break reminder, exercise reminder) and whose storage       *)
(* listener answer it with mutations of their own.                         *)
(***************************************************************************)
\* what chrome.storage.local holds: a day with a reminder scheduled, a
\* session that paused the reminder, a session with its timer running
QuietStores == ExerciseStores \cup PausedStores \cup StoresChain

\* the popup starts a session with the timer, stops one, the options page
\* turns the exercise reminder off or the mindfulness reminder on
QuietPatches ==
  { [currentTask |-> Str(TaskB), isInFlow |-> Bool(TRUE),
     breakReminderEnabled |-> Bool(TRUE)],
    [isInFlow |-> Bool(FALSE)],
    [exerciseReminderEnabled |-> Bool(FALSE)],
    [mindfulnessReminderEnabled |-> Bool(TRUE)] }

\* the popup, finding the background asleep, stores the start or the stop of
\* a session itself
QuietWrites ==
  { [currentTask |-> Str(TaskB), isInFlow |-> Bool(TRUE)],
    [isInFlow |-> Bool(FALSE)] }

InitQuiet ==
  /\ \E store \in QuietStores : HydratedFrom(store)
  /\ intentGate = NoGate
  /\ stateDeltaSubscribers =
       onStateDelta(SubscribersOf(initCallers), Subscriber("exerciseReminder"))
  \* a single update from outside: an updateState call or a storage write
  /\ budget \in { [updates |-> 1, fallbacks |-> 0, writes |-> 0, submits |-> 0],
                  [updates |-> 0, fallbacks |-> 0, writes |-> 1, submits |-> 0] }

\* what the runtime does by itself: handlers go on, promises settle,
\* storage callbacks and events arrive
QuietStep ==
  \/ initExerciseReminder
  \/ ExerciseStateUpdated
  \/ \E call \in exercise.calls : StopGateDone(call)
  \/ \E call \in exercise.calls : GateTabQueried(call)
  \/ \E call \in exercise.calls : ScheduleContinues(call)
  \/ ~ExercisePending /\ ChainStep

NextQuiet ==
  \/ QuietStep
  \/ ~ExercisePending /\ ~MicrotasksPending
       /\ \E updates \in QuietPatches : UpdateStateCall(updates, "ui")
  \/ ~ExercisePending /\ ~MicrotasksPending
       /\ \E items \in QuietWrites : ExternalWrite(items)

SpecQuiet == InitQuiet /\ [][NextQuiet]_vars

\* the event loop runs a task that is ready
SpecQuietFair == SpecQuiet /\ WF_vars(QuietStep)

\* every mutation that was chained has run and its promise has resolved,
\* and no handler, storage callback or storage event is outstanding
Settled ==
  /\ ExerciseQuiescent
  /\ {r.id : r \in observed.resolved} = 1 .. (nextId - 1)
  /\ Range(applied) = 1 .. (nextId - 1)

\* C39: from any hydrated state, whenever a mutation is chained (the update
\* from outside, or a follow-up of a subscriber or of the storage listener)
\* the runtime eventually settles: every updateState promise has resolved,
\* those issued from inside subscriber callbacks included, and the update
\* chain is idle.
C39_UpdatesSettle == (updateChain # <<>>) ~> Settled

\* C39 witness: the update from outside was made, a subscriber answered its
\* delta with a mutation of its own whose delta was broadcast after it, and
\* the runtime has settled.
C39_Witness ==
  /\ Settled
  /\ budget.updates = 0
  /\ budget.writes = 0
  /\ \E n, k \in DOMAIN broadcasts :
       /\ n < k
       /\ DOMAIN broadcasts[n].delta \cap
            {"isInFlow", "exerciseReminderEnabled"} # {}
       /\ DOMAIN broadcasts[k].delta \cap
            {"exerciseRemainingMs", "exerciseExpectedAt",
             "reminderExpectedEndTime"} # {}


(***************************************************************************)
(* SpecLog: the tab shows the gate page; justifications arrive, the second *)
(* one while the first is still being handled (a second tab's page, or the *)
(* same page after its request timed out), on logs of different lengths.   *)
(***************************************************************************)
MaxLogReasons == 2

\* a stored log of n entries, the newest first
LogOf(n) ==
  Arr([k \in 1 .. n |->
         Obj([reason |-> Str(<<"o","l","d","e","r">>),
              timestamp |-> Num(StartAt - k)])])

\* no log yet, a log one entry short of the cap, a full log
LogLengths == {0, INTENT_GATE_LOG_LIMIT - 1, INTENT_GATE_LOG_LIMIT}

LogStores ==
  { Merge(UserSites,
          IF n = 0
            THEN [intentGatePending_7 |-> UrlX]
            ELSE [intentGatePending_7 |-> UrlX, intentGateReasonLog |-> LogOf(n)]) :
      n \in LogLengths }

\* message.data of intentGateAllowAccess: two justifications the gate accepts
LogMessages ==
  { <<GatePageSender, [tabId |-> Num(GateTab), reason |-> Str(<<" ","m","a","i","l"," ","!"," ">>)]>>,
    <<GatePageSender, [tabId |-> Num(GateTab), reason |-> Str(<<"t","a","x","e","s">>)]>> }

InitLog ==
  /\ \E store \in LogStores :
       /\ HydratedFrom(store)
       /\ intentGate = [NoGate EXCEPT !.tab = BlockUrl(GateTab),
                                      !.blocked = [by |-> "handleBeforeNavigate",
                                                   url |-> UrlX]]
  /\ stateDeltaSubscribers = onStateDelta(SubscribersOf(initCallers), Subscriber("intentGate"))
  /\ budget = [updates |-> 0, fallbacks |-> 0, writes |-> 0,
               navigations |-> 0, reasons |-> MaxLogReasons]

NextLog ==
  \/ \E m \in LogMessages : handleAllowAccess(m[1], m[2])
  \/ \E call \in intentGate.calls : AllowAccessStores(call)
  \/ \E call \in intentGate.calls : AllowAccessRestores(call)
  \/ \E call \in intentGate.calls : IsTabAllowedRead(call)

SpecLog == InitLog /\ [][NextLog]_vars

\* the log storage held when the worker woke
StoredLog ==
  IF IsArray(Get(observed.left, STORAGE_REASON_LOG))
    THEN observed.left[STORAGE_REASON_LOG].v ELSE <<>>

\* the justifications accepted so far
Accepted == MaxLogReasons - budget.reasons

\* C40: once the accepted justifications have been handled, concurrently or
\* not, the log holds min(n, 50) entries, n counting the accepted
\* justifications and the entries stored before: the accepted ones first,
\* newest first, then the older entries in their order; none is missing
\* unless the cap of 50 evicted it.
C40_LogHoldsAccepted ==
  (\A call \in intentGate.calls : call.fn # "handleAllowAccess") =>
    LET log == Get(storage, STORAGE_REASON_LOG)
        n == Accepted + Len(StoredLog)
        kept == IF n < INTENT_GATE_LOG_LIMIT THEN n ELSE INTENT_GATE_LOG_LIMIT
    IN IF n = 0 THEN log = Undef
       ELSE /\ IsArray(log)
            /\ Len(log.v) = kept
            /\ \A k \in 1 .. kept :
                 IF k <= Accepted
                   THEN \E m \in LogMessages :
                          log.v[k].v.reason = ReasonOf(m[2])
                   ELSE log.v[k] = StoredLog[k - Accepted]
            /\ \A k \in 1 .. kept - 1 :
                 log.v[k].v.timestamp.v >= log.v[k + 1].v.timestamp.v

=========================================================================
